---- MODULE Spec2Model ----
(***************************************************************************)
(* The authentication session layer of rupesh2k/supabaseauth:              *)
(*   - AuthProvider (features/auth/context, file useAuth.ts): the session  *)
(*     state {user, tokens, isLoading, isAuthenticated} and the operations *)
(*     login, signup, logout, refreshAuth, the mount-time initializeAuth   *)
(*     and the onAuthStateChange listener;                                 *)
(*   - the two AuthAdapter implementations, SupabaseAuthAdapter and        *)
(*     MockAuthAdapter;                                                    *)
(*   - the apiClient request interceptor with its token getter.            *)
(* JavaScript runs one synchronous segment at a time: every action below   *)
(* is one such segment (a call up to its first await, or the continuation  *)
(* after an await).  The Supabase SDK is the environment: its responses    *)
(* and its state-change events are chosen nondeterministically.            *)
(***************************************************************************)
EXTENDS Integers, Sequences, FiniteSets, Bags, TLC

VARIABLES
    adapterKind,        \* which AuthAdapter the AuthProvider was given
    state,              \* AuthProvider's useState<AuthState>
    mounted,            \* the `mounted` flag of the initialize effect
    authStateCallbacks, \* callbacks registered through onAuthStateChange
    initOp,             \* the pending adapter.initialize() call of the mount
    ops,                \* login/signup/logout/refreshAuth calls in flight
    mockUser,           \* MockAuthAdapter.mockUser
    mockTokens,         \* MockAuthAdapter.mockTokens
    shouldFailLogin,    \* MockAuthAdapter.shouldFailLogin
    shouldFailSignup,   \* MockAuthAdapter.shouldFailSignup
    supaSession,        \* the session held by the Supabase client
    authTokenGetter,    \* apiClient's module-level authTokenGetter
    requests,           \* outbound requests waiting in the interceptor
    fetchesInFlight,    \* adapter.getAccessToken() calls not yet resolved
    handles,            \* callbacks whose unsubscribe function was handed out
    notifying,          \* the forEach loops of notifyAuthStateChange in progress
    replaced,           \* an earlier AuthProvider instance was replaced by a mount
    event               \* what the last step did (observation of the run)

vars == <<adapterKind, state, mounted, authStateCallbacks, initOp, ops,
          mockUser, mockTokens, shouldFailLogin, shouldFailSignup,
          supaSession, authTokenGetter, requests, fetchesInFlight, handles,
          notifying, replaced, event>>

----------------------------------------------------------------------------
(* Bounds *)

MaxInFlight == 2
MaxRequests == 2
MaxListeners == 2
MaxNesting == 2

----------------------------------------------------------------------------
(* JavaScript values *)

Null == [t |-> "null"]
Undefined == [t |-> "undefined"]
Str(s) == [t |-> "string", v |-> s]
Num(n) == [t |-> "number", v |-> n]

Idle == [t |-> "idle"]
Pending == [t |-> "pending"]
\* a promise that never settles
Hung == [t |-> "hung"]

Emails == {"a@b.com", "test@example.com"}
Passwords == {"password123"}
Credentials == [email : Emails, password : Passwords]

\* auth.types.ts: AuthState
AuthState(u, tk, l, a) ==
    [user |-> u, tokens |-> tk, isLoading |-> l, isAuthenticated |-> a]

\* auth.types.ts: AuthResult<T>
Success(d) == [success |-> TRUE, data |-> d]
Failure(c, m, d) ==
    [success |-> FALSE, error |-> [code |-> c, message |-> m, details |-> d]]

----------------------------------------------------------------------------
(* What the Supabase client can hand to the adapter *)

SupaUsers ==
    { [id |-> "uuid-1", email |-> "a@b.com",
       email_confirmed_at |-> Str("2024-01-01T00:00:00Z"),
       user_metadata |-> [role |-> "admin"]],
      [id |-> "uuid-2", email |-> "test@example.com",
       email_confirmed_at |-> Null,
       user_metadata |-> Undefined] }

AccessTokens == {"jwt-1", "jwt-2"}

SupaSession(a, u) ==
    [access_token |-> a, refresh_token |-> "refresh-1",
     expires_at |-> 1700000000, user |-> u]

\* two sessions of the first user (before and after a token refresh) and
\* one of the second
SupaSessions ==
    { SupaSession(a, u) : a \in AccessTokens, u \in SupaUsers }
      \ { SupaSession("jwt-2", u) : u \in {v \in SupaUsers : v.id = "uuid-2"} }

\* AuthError values the client reports in `error`
ErrorValues ==
    { [t |-> "object", hasMessage |-> TRUE, isError |-> TRUE,
       message |-> "Invalid login credentials", status |-> Num(400)] }

\* values a client call throws
ThrownValues ==
    { [t |-> "object", hasMessage |-> TRUE, isError |-> TRUE,
       message |-> "Failed to fetch", status |-> Undefined] }

\* a response of one client call: it throws, or resolves to {data, error}
Threw(e) == [threw |-> TRUE, thrown |-> e, error |-> Null,
             user |-> Null, session |-> Null]
Resolved(e, u, s) == [threw |-> FALSE, thrown |-> Null, error |-> e,
                      user |-> u, session |-> s]

\* this.client.auth.getSession(): the stored session, an error, or a throw
GetSessionResponses(sess) ==
    {Threw(e) : e \in ThrownValues}
      \cup {Resolved(e, Null, Null) : e \in ErrorValues}
      \cup {Resolved(Null, IF sess = Null THEN Null ELSE sess.user, sess)}

\* this.client.auth.signInWithPassword(...)
SignInResponses ==
    {Threw(e) : e \in ThrownValues}
      \cup {Resolved(e, Null, Null) : e \in ErrorValues}
      \cup {Resolved(Null, s.user, s) : s \in SupaSessions}
      \cup {Resolved(Null, u, Null) : u \in SupaUsers}
      \cup {Resolved(Null, Null, Null)}
      \cup {Resolved(Null, Null, SupaSession("jwt-1", u)) :
                u \in {v \in SupaUsers : v.id = "uuid-1"}}

\* this.client.auth.signUp(...): with email verification switched on the
\* user is created and no session is issued; the answer may also lack the
\* user
SignUpResponses ==
    {Threw(e) : e \in ThrownValues}
      \cup {Resolved(e, Null, Null) : e \in ErrorValues}
      \cup {Resolved(Null, s.user, s) : s \in SupaSessions}
      \cup {Resolved(Null, u, Null) : u \in SupaUsers}
      \cup {Resolved(Null, Null, Null)}
      \cup {Resolved(Null, Null, SupaSession("jwt-1", u)) :
                u \in {v \in SupaUsers : v.id = "uuid-1"}}

\* signup's `if (!data.session || !data.user)`: the answer carries no error
\* and lacks the session or the user
VerificationPending(resp) ==
    ~resp.threw /\ resp.error = Null
      /\ (resp.session = Null \/ resp.user = Null)

\* this.client.auth.signOut()
SignOutResponses ==
    {Threw(e) : e \in ThrownValues}
      \cup {Resolved(e, Null, Null) : e \in ErrorValues}
      \cup {Resolved(Null, Null, Null)}

\* this.client.auth.getUser(): the user of the stored session
GetUserResponses(sess) ==
    {Threw(e) : e \in ThrownValues}
      \cup {Resolved(e, Null, Null) : e \in ErrorValues}
      \cup {Resolved(Null, IF sess = Null THEN Null ELSE sess.user, Null)}

\* this.client.auth.refreshSession()
RefreshSessionResponses ==
    {Threw(e) : e \in ThrownValues}
      \cup {Resolved(e, Null, Null) : e \in ErrorValues}
      \cup {Resolved(Null, s.user, s) : s \in SupaSessions}
      \cup {Resolved(Null, Null, Null)}

\* this.client.auth.resetPasswordForEmail(...): only `error` is read
ResetPasswordResponses ==
    {Threw(e) : e \in ThrownValues}
      \cup {Resolved(e, Null, Null) : e \in ErrorValues}
      \cup {Resolved(Null, Null, Null)}

\* this.client.auth.updateUser(...): only `error` is read
UpdateUserResponses ==
    {Threw(e) : e \in ThrownValues}
      \cup {Resolved(e, Null, Null) : e \in ErrorValues}
      \cup {Resolved(Null, u, Null) : u \in SupaUsers}

\* other values a try block can catch: a thrown string, a thrown object
\* with a message that is not an Error, a TypeError raised by the method
\* body itself
OtherThrownValues ==
    { [t |-> "string", hasMessage |-> FALSE, isError |-> FALSE,
       message |-> "", status |-> Undefined],
      [t |-> "object", hasMessage |-> TRUE, isError |-> FALSE,
       message |-> "rate limited", status |-> Num(429)],
      [t |-> "object", hasMessage |-> TRUE, isError |-> TRUE,
       message |-> "Cannot read properties of undefined",
       status |-> Undefined] }

----------------------------------------------------------------------------
(* SupabaseAuthAdapter *)

mapUser(supabaseUser) ==
    [id |-> supabaseUser.id,
     email |-> supabaseUser.email,
     emailVerified |-> supabaseUser.email_confirmed_at # Null,
     metadata |-> supabaseUser.user_metadata]

mapTokens(session) ==
    [accessToken |-> session.access_token,
     refreshToken |-> session.refresh_token,
     expiresAt |-> session.expires_at]

isSupabaseError(error) ==
    error.t = "object" /\ error.hasMessage

\* error.status?.toString() || 'UNKNOWN'
StatusCode(error) ==
    IF error.status \in {Undefined, Null} THEN "UNKNOWN"
    ELSE ToString(error.status.v)

handleError(error) ==
    IF isSupabaseError(error)
      THEN Failure(StatusCode(error), error.message, error)
    ELSE IF error.t = "object" /\ error.isError
      THEN Failure("UNKNOWN", error.message, error)
    ELSE Failure("UNKNOWN", "An unknown error occurred", error)

\* variant: initialize treats a missing session like login does
SupabaseInitialize_NoSessionFails(resp) ==
    IF resp.threw THEN handleError(resp.thrown)
    ELSE IF resp.error # Null THEN handleError(resp.error)
    ELSE IF resp.session = Null
      THEN Failure("NO_SESSION", "No session", Undefined)
    ELSE Success([user |-> mapUser(resp.session.user),
                  tokens |-> mapTokens(resp.session)])

SupabaseInitialize(resp) ==
    IF resp.threw THEN handleError(resp.thrown)
    ELSE IF resp.error # Null THEN handleError(resp.error)
    ELSE IF resp.session = Null THEN Success(Null)
    ELSE Success([user |-> mapUser(resp.session.user),
                  tokens |-> mapTokens(resp.session)])

SupabaseLogin(resp) ==
    IF resp.threw THEN handleError(resp.thrown)
    ELSE IF resp.error # Null THEN handleError(resp.error)
    ELSE IF resp.session = Null \/ resp.user = Null
      THEN Failure("NO_SESSION", "Login failed: no session returned", Undefined)
    ELSE Success([user |-> mapUser(resp.user),
                  tokens |-> mapTokens(resp.session)])

\* variant: a signup without a session is reported as a success
SupabaseSignup_PendingIsSuccess(resp) ==
    IF resp.threw THEN handleError(resp.thrown)
    ELSE IF resp.error # Null THEN handleError(resp.error)
    ELSE IF resp.user = Null
      THEN Failure("NO_SESSION",
                   "Signup succeeded but no session. Check email for verification.",
                   Undefined)
    ELSE Success([user |-> mapUser(resp.user),
                  tokens |-> IF resp.session = Null THEN Null
                             ELSE mapTokens(resp.session)])

SupabaseSignup(resp) ==
    IF resp.threw THEN handleError(resp.thrown)
    ELSE IF resp.error # Null THEN handleError(resp.error)
    ELSE IF resp.session = Null \/ resp.user = Null
      THEN Failure("NO_SESSION",
                   "Signup succeeded but no session. Check email for verification.",
                   Undefined)
    ELSE Success([user |-> mapUser(resp.user),
                  tokens |-> mapTokens(resp.session)])

SupabaseLogout(resp) ==
    IF resp.threw THEN handleError(resp.thrown)
    ELSE IF resp.error # Null THEN handleError(resp.error)
    ELSE Success(Undefined)

SupabaseGetCurrentUser(resp) ==
    IF resp.threw THEN handleError(resp.thrown)
    ELSE IF resp.error # Null THEN handleError(resp.error)
    ELSE Success(IF resp.user # Null THEN mapUser(resp.user) ELSE Null)

SupabaseRefreshToken(resp) ==
    IF resp.threw THEN handleError(resp.thrown)
    ELSE IF resp.error # Null THEN handleError(resp.error)
    ELSE IF resp.session = Null
      THEN Failure("NO_SESSION", "Token refresh failed", Undefined)
    ELSE Success(mapTokens(resp.session))

\* variant: updatePassword without its try/catch, the exception escapes
SupabaseUpdatePassword_Rethrows(resp) ==
    IF resp.threw THEN [t |-> "throw", thrown |-> resp.thrown]
    ELSE IF resp.error # Null THEN handleError(resp.error)
    ELSE Success(Undefined)

SupabaseUpdatePassword(resp) ==
    IF resp.threw THEN handleError(resp.thrown)
    ELSE IF resp.error # Null THEN handleError(resp.error)
    ELSE Success(Undefined)

\* window.location.origin is read inside the try block as well
SupabaseRequestPasswordReset(resp) ==
    IF resp.threw THEN handleError(resp.thrown)
    ELSE IF resp.error # Null THEN handleError(resp.error)
    ELSE Success(Undefined)

\* data.session?.access_token ?? null, null when the call throws
SupabaseGetAccessToken(resp) ==
    IF resp.threw THEN Null
    ELSE IF resp.session = Null THEN Null
    ELSE Str(resp.session.access_token)

\* variant: getAccessToken asks again after a throw
GetAccessTokenRun_RetriesOnce(resps) ==
    IF resps[1].threw
      THEN [token |-> SupabaseGetAccessToken(resps[2]), queries |-> 2]
      ELSE [token |-> SupabaseGetAccessToken(resps[1]), queries |-> 1]

\* one run of getAccessToken when the client would answer successive
\* getSession() calls with resps: the single await of the body sees the
\* first answer
GetAccessTokenRun(resps) ==
    [token |-> SupabaseGetAccessToken(resps[1]), queries |-> 1]

----------------------------------------------------------------------------
(* MockAuthAdapter: every method body runs to its return inside the call;  *)
(* each operator gives the result the returned promise resolves to and the *)
(* adapter fields after the call.  notify says whether the call ran        *)
(* notifyAuthStateChange.                                                  *)

MockCall(result, u, tk, notify) ==
    [result |-> result, mockUser |-> u, mockTokens |-> tk, notify |-> notify]

\* variant: initialize never restores the session the mock holds
MockInitialize_NeverRestores(u, tk) == Success(Null)

MockInitialize(u, tk) ==
    IF u # Null /\ tk # Null
      THEN Success([user |-> u, tokens |-> tk])
      ELSE Success(Null)

MockLogin(credentials, failLogin, u, tk) ==
    IF failLogin
      THEN MockCall(Failure("MOCK_ERROR", "Mock login failed", Undefined),
                    u, tk, FALSE)
    ELSE LET nu == [id |-> "mock-user-id", email |-> credentials.email,
                    emailVerified |-> TRUE]
             nt == [accessToken |-> "mock-access-token",
                    refreshToken |-> "mock-refresh-token"]
         IN MockCall(Success([user |-> nu, tokens |-> nt]), nu, nt, TRUE)

MockSignup(credentials, failSignup, failLogin, u, tk) ==
    IF failSignup
      THEN MockCall(Failure("MOCK_ERROR", "Mock signup failed", Undefined),
                    u, tk, FALSE)
    ELSE MockLogin(credentials, failLogin, u, tk)

MockLogout ==
    MockCall(Success(Undefined), Null, Null, TRUE)

MockGetCurrentUser(u) == Success(u)

MockRefreshToken(tk) ==
    IF tk = Null
      THEN Failure("NO_TOKEN", "No token to refresh", Undefined)
      ELSE Success(tk)

MockRequestPasswordReset == Success(Undefined)

MockUpdatePassword == Success(Undefined)

\* variant: the mock hands out the refresh token
MockGetAccessToken_RefreshToken(tk) ==
    IF tk = Null THEN Null ELSE Str(tk.refreshToken)

\* this.mockTokens?.accessToken ?? null
MockGetAccessToken(tk) ==
    IF tk = Null THEN Null ELSE Str(tk.accessToken)

----------------------------------------------------------------------------
(* AuthProvider *)

\* useState initial value
InitialState == AuthState(Null, Null, TRUE, FALSE)

\* the state written by logout and by a failed/empty initialize
ClearedState == AuthState(Null, Null, FALSE, FALSE)

\* variant: the listener marks every notification as authenticated
Listener_AlwaysAuthenticated(u, tk) == AuthState(u, tk, FALSE, TRUE)

\* variant: the listener leaves isLoading as it finds it
Listener_KeepsLoading(u, tk) == AuthState(u, tk, state.isLoading, u # Null)

\* the listener given to adapter.onAuthStateChange
Listener(u, tk) == AuthState(u, tk, FALSE, u # Null)

\* SupabaseAuthAdapter.onAuthStateChange: what the wrapper passes on
SupabaseOnAuthStateChange(session) ==
    [user |-> IF session # Null /\ session.user # Null
                THEN mapUser(session.user) ELSE Null,
     tokens |-> IF session # Null THEN mapTokens(session) ELSE Null]

\* variant: the unsubscribe function pops the newest registration
Unsubscribed_PopsLast(cbs, cb) ==
    IF Len(cbs) = 0 THEN cbs ELSE SubSeq(cbs, 1, Len(cbs) - 1)

\* the unsubscribe function onAuthStateChange returns for cb:
\* authStateCallbacks.filter((c) => c !== cb)
Unsubscribed(cbs, cb) == SelectSeq(cbs, LAMBDA c : c # cb)

\* the session state after the registered callbacks ran with (u, tk)
notifyAuthStateChange(st, u, tk) ==
    IF \E k \in 1..Len(authStateCallbacks) :
          authStateCallbacks[k] = "AuthProvider"
      THEN Listener(u, tk)
      ELSE st

\* the number of login/signup/logout/refreshAuth calls awaiting their
\* adapter promise
InFlight == BagCardinality(ops)

\* a call in flight: its arguments and, once the adapter has produced it,
\* the result its promise resolves to; `seen` is the session the Supabase
\* client has read for the getUser() of a refreshAuth; `orphan` says that
\* the AuthProvider instance whose setState the continuation calls has been
\* replaced by a later instance; a logout called in the settled anonymous
\* state also carries that state (observation only, no code reads it)
NewOp(kind, cred, result, stale) ==
    [kind |-> kind, cred |-> cred, result |-> result,
     seen |-> IF kind = "refreshAuth" THEN supaSession ELSE Null,
     orphan |-> stale,
     pre |-> IF kind = "logout" /\ state = ClearedState THEN state ELSE Null]

\* what a step did; `overtaken` is filled in by logout only: the calls that
\* were in flight when logout() was called (observation only)
Ev(kind, cred, resp, result, ret) ==
    [kind |-> kind, cred |-> cred, resp |-> resp, result |-> result,
     ret |-> ret, pre |-> Null, overtaken |-> EmptyBag]

\* the user of the session the adapter holds (the mock in its fields, the
\* Supabase client in its persisted session)
PersistedUser ==
    IF adapterKind = "mock" THEN mockUser
    ELSE IF supaSession = Null THEN Null ELSE supaSession.user

\* initializeAuth of a mounting AuthProvider calls adapter.initialize();
\* `seen` is the session the Supabase client has read for its getSession();
\* the call also carries the user the adapter held when it was made
\* (observation only, no code reads it)
InitializeCall ==
    [result |-> IF adapterKind = "mock"
                  THEN MockInitialize(mockUser, mockTokens) ELSE Pending,
     seen |-> supaSession,
     pre |-> PersistedUser]

Init ==
    /\ adapterKind \in {"mock", "supabase"}
    /\ state = InitialState
    /\ mounted = TRUE
    /\ authStateCallbacks = <<"AuthProvider">>
    /\ mockUser = Null
    /\ mockTokens = Null
    /\ shouldFailLogin \in (IF adapterKind = "mock" THEN BOOLEAN ELSE {FALSE})
    /\ shouldFailSignup \in (IF adapterKind = "mock" THEN BOOLEAN ELSE {FALSE})
    /\ supaSession \in (IF adapterKind = "supabase"
                          THEN SupaSessions \cup {Null} ELSE {Null})
    /\ initOp = InitializeCall
    /\ ops = EmptyBag
    /\ authTokenGetter = Null
    /\ requests = EmptyBag
    /\ fetchesInFlight = 0
    /\ handles = {"AuthProvider"}
    /\ notifying = << >>
    /\ replaced = FALSE
    /\ event = Ev("mount", Null, Null, Null, Null)

\* the part of a call that runs inside the adapter before it returns its
\* promise: the whole body for the mock, nothing observable for Supabase
AdapterCall(kind, cred) ==
    IF adapterKind = "mock"
      THEN CASE kind = "login" ->
                  MockLogin(cred, shouldFailLogin, mockUser, mockTokens)
             [] kind = "signup" ->
                  MockSignup(cred, shouldFailSignup, shouldFailLogin,
                             mockUser, mockTokens)
             [] kind = "logout" -> MockLogout
             [] OTHER ->
                  MockCall(MockGetCurrentUser(mockUser),
                           mockUser, mockTokens, FALSE)
      ELSE MockCall(Pending, mockUser, mockTokens, FALSE)

\* setState(next): React applies the update to a mounted component and
\* drops it once the component is unmounted
SetState(next) == IF mounted THEN next ELSE state

\* setState(next) in the continuation of the call o: the setState of the
\* instance that made the call, which is not the state of a later instance
SetStateOf(o, next) == IF o.orphan THEN state ELSE SetState(next)

\* who can call a callback: the mounted instance, and, once an instance
\* has been replaced, the callbacks that instance handed out (stale = TRUE).
\* With no instance mounted every setState is dropped, whoever calls.
Callers == IF mounted /\ replaced THEN {FALSE, TRUE} ELSE {FALSE}

\* a session-manager operation up to its `await adapter.<kind>(...)`; the
\* callbacks login/signup/logout/refreshAuth handed out through the context
\* stay callable after the provider is unmounted or replaced.  The setState
\* before the await (s1) is the caller's own: a replaced instance's is
\* dropped, but the adapter call it makes still notifies the listener the
\* mounted instance registered.
Begin(kind, cred, s1) ==
    /\ InFlight < MaxInFlight
    /\ \E stale \in Callers :
         LET c == AdapterCall(kind, cred)
             s0 == IF stale THEN state ELSE s1
             ns == IF c.notify
                     THEN notifyAuthStateChange(s0, c.mockUser, c.mockTokens)
                     ELSE s0
         IN /\ state' = SetState(ns)
            /\ mockUser' = c.mockUser
            /\ mockTokens' = c.mockTokens
            /\ ops' = ops (+) SetToBag({NewOp(kind, cred, c.result, stale)})
            /\ event' = [Ev(kind \o "Start", cred, Null, c.result, Null)
                            EXCEPT !.overtaken = IF kind = "logout"
                                                   THEN ops ELSE EmptyBag]
    /\ UNCHANGED <<adapterKind, handles, mounted, authStateCallbacks, initOp,
                   shouldFailLogin, shouldFailSignup, supaSession,
                   authTokenGetter, requests, fetchesInFlight,
                   notifying, replaced>>

LoginStart ==
    \E cred \in Credentials :
      Begin("login", cred, [state EXCEPT !.isLoading = TRUE])

SignupStart ==
    \E cred \in Credentials :
      Begin("signup", cred, [state EXCEPT !.isLoading = TRUE])

LogoutStart ==
    Begin("logout", Null, [state EXCEPT !.isLoading = TRUE])

RefreshAuthStart ==
    Begin("refreshAuth", Null, state)

\* variant: a failed login clears the session
AfterLogin_ClearOnFailure(st, r) ==
    IF r.success
      THEN AuthState(r.data.user, r.data.tokens, FALSE, TRUE)
      ELSE ClearedState

\* variant: a successful login keeps the old token pair
AfterLogin_KeepsOldTokens(st, r) ==
    IF r.success
      THEN AuthState(r.data.user, st.tokens, FALSE, TRUE)
      ELSE [st EXCEPT !.isLoading = FALSE]

\* variant: a failed login forgets to reset the loading flag
AfterLogin_LoadingStuck(st, r) ==
    IF r.success
      THEN AuthState(r.data.user, r.data.tokens, FALSE, TRUE)
      ELSE st

\* the continuations after `await adapter.<kind>(...)`
AfterLogin(st, r) ==
    IF r.success
      THEN AuthState(r.data.user, r.data.tokens, FALSE, TRUE)
      ELSE [st EXCEPT !.isLoading = FALSE]

\* variant: login reports a fixed text instead of the adapter's message
LoginReturn_GenericMessage(r) ==
    IF r.success THEN [success |-> TRUE]
    ELSE [success |-> FALSE, error |-> "Login failed"]

LoginReturn(r) ==
    IF r.success THEN [success |-> TRUE]
    ELSE [success |-> FALSE, error |-> r.error.message]

\* variant: a failed signup leaves isLoading as it was set at the start
AfterSignup_LoadingStuck(st, r) ==
    IF r.success
      THEN AuthState(r.data.user, r.data.tokens, FALSE, TRUE)
      ELSE st

AfterSignup(st, r) ==
    IF r.success
      THEN AuthState(r.data.user, r.data.tokens, FALSE, TRUE)
      ELSE [st EXCEPT !.isLoading = FALSE]

SignupReturn(r) ==
    IF r.success THEN [success |-> TRUE]
    ELSE [success |-> FALSE, error |-> r.error.message]

\* variant: logout clears the session only when the port call succeeded
AfterLogout_KeepOnFailure(st, r) ==
    IF r.success THEN ClearedState ELSE [st EXCEPT !.isLoading = FALSE]

\* variant: the final setState of logout forgets isLoading: false
AfterLogout_LoadingStuck(st, r) == AuthState(Null, Null, TRUE, FALSE)

AfterLogout(st, r) == ClearedState

\* variant: refreshAuth signs the user out when the provider reports no user
AfterRefreshAuth_ClearsOnNoUser(st, r) ==
    IF r.success /\ r.data # Null
      THEN [st EXCEPT !.user = r.data, !.isAuthenticated = TRUE]
      ELSE ClearedState

AfterRefreshAuth(st, r) ==
    IF r.success /\ r.data # Null
      THEN [st EXCEPT !.user = r.data, !.isAuthenticated = TRUE]
      ELSE st

\* variant: initializeAuth without the `if (!mounted) return` line
AfterInitialize_IgnoresMounted(st, r, isMounted) ==
    IF r.success /\ r.data # Null
      THEN AuthState(r.data.user, r.data.tokens, FALSE, TRUE)
      ELSE ClearedState

\* variant: a failed or empty initialize only resets the loading flag
AfterInitialize_KeepOnFailure(st, r, isMounted) ==
    IF ~isMounted THEN st
    ELSE IF r.success /\ r.data # Null
      THEN AuthState(r.data.user, r.data.tokens, FALSE, TRUE)
      ELSE [st EXCEPT !.isLoading = FALSE]

AfterInitialize(st, r, isMounted) ==
    IF ~isMounted THEN st
    ELSE IF r.success /\ r.data # Null
      THEN AuthState(r.data.user, r.data.tokens, FALSE, TRUE)
      ELSE ClearedState

\* the session the Supabase client holds after a call resolved with resp
SessionAfter(kind, resp, r) ==
    IF adapterKind # "supabase" THEN supaSession
    ELSE IF kind \in {"login", "signup"} /\ r.success THEN resp.session
    ELSE IF kind = "logout" /\ r.success THEN Null
    ELSE supaSession

\* what the client call behind o can answer; the answer of getUser() is
\* made from the session the client read for that call
Responses(o) ==
    IF adapterKind = "mock" THEN {Null}
    ELSE CASE o.kind = "login" -> SignInResponses
           [] o.kind = "signup" -> SignUpResponses
           [] o.kind = "logout" -> SignOutResponses
           [] OTHER -> GetUserResponses(o.seen)

\* the AuthResult the awaited promise resolves to
Outcome(kind, o, resp) ==
    IF adapterKind = "mock" THEN o.result
    ELSE CASE kind = "login" -> SupabaseLogin(resp)
           [] kind = "signup" -> SupabaseSignup(resp)
           [] kind = "logout" -> SupabaseLogout(resp)
           [] OTHER -> SupabaseGetCurrentUser(resp)

Finish(o, resp, r, ns, ret) ==
    /\ o.result # Hung
    /\ state' = SetStateOf(o, ns)
    /\ ops' = ops (-) SetToBag({o})
    /\ supaSession' = SessionAfter(o.kind, resp, r)
    /\ event' = [Ev(o.kind \o "Done", o.cred, resp, r, ret)
                    EXCEPT !.pre = o.pre,
                           !.overtaken =
                              IF o.kind = "logout" /\ event.kind = "logoutStart"
                                THEN event.overtaken ELSE EmptyBag]
    /\ UNCHANGED <<adapterKind, handles, mounted, authStateCallbacks, initOp,
                   mockUser, mockTokens, shouldFailLogin, shouldFailSignup,
                   authTokenGetter, requests, fetchesInFlight,
                   notifying, replaced>>

LoginComplete ==
    \E o \in BagToSet(ops) :
      /\ o.kind = "login"
      /\ \E resp \in Responses(o) :
           LET r == Outcome("login", o, resp)
           IN Finish(o, resp, r, AfterLogin(state, r), LoginReturn(r))

SignupComplete ==
    \E o \in BagToSet(ops) :
      /\ o.kind = "signup"
      /\ \E resp \in Responses(o) :
           LET r == Outcome("signup", o, resp)
           IN Finish(o, resp, r, AfterSignup(state, r), SignupReturn(r))

LogoutComplete ==
    \E o \in BagToSet(ops) :
      /\ o.kind = "logout"
      /\ \E resp \in Responses(o) :
           LET r == Outcome("logout", o, resp)
           IN Finish(o, resp, r, AfterLogout(state, r), Undefined)

\* the Supabase client reads its session for the getUser() of a pending
\* refreshAuth: the call is asynchronous in the client too, and what it
\* answers is the session it held at some moment between the call and the
\* answer, not necessarily the one it holds when refreshAuth resumes
RefreshAuthRead ==
    /\ adapterKind = "supabase"
    /\ \E o \in BagToSet(ops) :
         /\ o.kind = "refreshAuth"
         /\ o.seen # supaSession
         /\ o.result # Hung
         /\ ops' = (ops (-) SetToBag({o}))
                      (+) SetToBag({[o EXCEPT !.seen = supaSession]})
    /\ event' = Ev("clientRead", Null, Null, Null, Null)
    /\ UNCHANGED <<adapterKind, handles, state, mounted, authStateCallbacks,
                   initOp, mockUser, mockTokens, shouldFailLogin,
                   shouldFailSignup, supaSession, authTokenGetter, requests,
                   fetchesInFlight,
                   notifying, replaced>>

\* getCurrentUser after `await this.client.auth.getUser()` and refreshAuth
\* after `await adapter.getCurrentUser()`
RefreshAuthComplete ==
    \E o \in BagToSet(ops) :
      /\ o.kind = "refreshAuth"
      /\ \E resp \in Responses(o) :
           LET r == Outcome("refreshAuth", o, resp)
           IN Finish(o, resp, r, AfterRefreshAuth(state, r), Undefined)

\* the Supabase client reads its session for the getSession() of the
\* pending initialize(): what it answers is the session it held at some
\* moment between the call and the answer
InitializeRead ==
    /\ adapterKind = "supabase"
    /\ initOp # Idle
    /\ initOp.seen # supaSession
    /\ initOp.result # Hung
    /\ initOp' = [initOp EXCEPT !.seen = supaSession]
    /\ event' = Ev("clientRead", Null, Null, Null, Null)
    /\ UNCHANGED <<adapterKind, handles, state, mounted, authStateCallbacks,
                   ops, mockUser, mockTokens, shouldFailLogin,
                   shouldFailSignup, supaSession, authTokenGetter, requests,
                   fetchesInFlight,
                   notifying, replaced>>

\* variant: the effect runs initializeAuth again once it has settled
InitializeComplete_CallsAgain ==
    /\ initOp # Idle
    /\ initOp.result # Hung
    /\ \E resp \in (IF adapterKind = "mock" THEN {Null}
                      ELSE GetSessionResponses(initOp.seen)) :
         LET r == IF adapterKind = "mock" THEN initOp.result
                  ELSE SupabaseInitialize(resp)
             ns == AfterInitialize(state, r, mounted)
         IN /\ state' = ns
            /\ event' = [Ev("initializeDone", Null, resp, r, Undefined)
                            EXCEPT !.pre = initOp.pre]
    /\ initOp' = InitializeCall
    /\ UNCHANGED <<adapterKind, handles, mounted, authStateCallbacks, ops,
                   mockUser, mockTokens, shouldFailLogin, shouldFailSignup,
                   supaSession, authTokenGetter, requests, fetchesInFlight,
                   notifying, replaced>>

\* initialize after `await this.client.auth.getSession()` and
\* initializeAuth after `await adapter.initialize()`; the answer is made
\* from the session the client read for the call
InitializeComplete ==
    /\ initOp # Idle
    /\ initOp.result # Hung
    /\ \E resp \in (IF adapterKind = "mock" THEN {Null}
                      ELSE GetSessionResponses(initOp.seen)) :
         LET r == IF adapterKind = "mock" THEN initOp.result
                  ELSE SupabaseInitialize(resp)
             ns == AfterInitialize(state, r, mounted)
         IN /\ state' = ns
            /\ event' = [Ev("initializeDone", Null, resp, r, Undefined)
                            EXCEPT !.pre = initOp.pre]
    /\ initOp' = Idle
    /\ UNCHANGED <<adapterKind, handles, mounted, authStateCallbacks, ops,
                   mockUser, mockTokens, shouldFailLogin, shouldFailSignup,
                   supaSession, authTokenGetter, requests, fetchesInFlight,
                   notifying, replaced>>

\* the Supabase client reports a session change (sign-in or sign-out in
\* another tab, background token refresh): the adapter's wrapper maps the
\* session and calls the registered callback
ProviderEvent ==
    /\ adapterKind = "supabase"
    /\ \E session \in SupaSessions \cup {Null} :
         LET a == SupabaseOnAuthStateChange(session)
             ns == notifyAuthStateChange(state, a.user, a.tokens)
         IN /\ supaSession' = session
            /\ state' = ns
            /\ event' = Ev("callback", Null, session, Null, Null)
    /\ UNCHANGED <<adapterKind, handles, mounted, authStateCallbacks, initOp, ops,
                   mockUser, mockTokens, shouldFailLogin, shouldFailSignup,
                   authTokenGetter, requests, fetchesInFlight,
                   notifying, replaced>>

\* the calls of an AuthProvider instance once a later instance is mounted:
\* they stay in flight and their continuations run, calling the setState of
\* the instance that is gone; a pending initializeAuth of that instance
\* finds its own `mounted` false when it resumes
Orphan(o) == [o EXCEPT !.orphan = TRUE]

Orphaned(inFlight, init) ==
    BagOfAll(Orphan, inFlight)
      (+) (IF init = Idle THEN EmptyBag
           ELSE SetToBag({[kind |-> "initialize", cred |-> Null,
                           result |-> init.result, seen |-> Null,
                           orphan |-> TRUE, pre |-> Null]}))

\* a new AuthProvider is mounted on the same adapter after the previous one
\* was unmounted: fresh useState, initializeAuth called, listener
\* registered.  Calls of the previous instance still in flight stay in
\* flight (at most MaxInFlight of them, its initialize() included).
Remount ==
    /\ ~mounted
    /\ initOp # Idle => InFlight < MaxInFlight
    /\ mounted' = TRUE
    /\ state' = InitialState
    /\ authStateCallbacks' = Append(authStateCallbacks, "AuthProvider")
    /\ initOp' = InitializeCall
    /\ ops' = Orphaned(ops, initOp)
    /\ replaced' = TRUE
    /\ event' = Ev("mount", Null, Null, Null, Null)
    /\ UNCHANGED <<adapterKind, handles, mockUser, mockTokens, shouldFailLogin,
                   shouldFailSignup, supaSession, authTokenGetter, requests,
                   fetchesInFlight,
                   notifying>>

\* initializeAuth of a replaced instance after `await adapter.initialize()`:
\* `if (!mounted) return`
StaleInitializeComplete ==
    /\ \E o \in BagToSet(ops) :
         /\ o.kind = "initialize"
         /\ o.result # Hung
         /\ ops' = ops (-) SetToBag({o})
    /\ event' = Ev("staleInitializeDone", Null, Null, Null, Undefined)
    /\ UNCHANGED <<adapterKind, handles, state, mounted, authStateCallbacks,
                   initOp, mockUser, mockTokens, shouldFailLogin,
                   shouldFailSignup, supaSession, authTokenGetter, requests,
                   fetchesInFlight,
                   notifying, replaced>>

\* the cleanups of the two effects
Unmount ==
    /\ mounted
    /\ mounted' = FALSE
    /\ authStateCallbacks' = Unsubscribed(authStateCallbacks, "AuthProvider")
    /\ event' = Ev("unmount", Null, Null, Null, Null)
    /\ UNCHANGED <<adapterKind, handles, state, initOp, ops, mockUser, mockTokens,
                   shouldFailLogin, shouldFailSignup, supaSession,
                   authTokenGetter, requests, fetchesInFlight,
                   notifying, replaced>>

----------------------------------------------------------------------------
(* apiClient *)

\* App.tsx: setAuthTokenGetter(getAccessToken)
SetAuthTokenGetter ==
    /\ authTokenGetter = Null
    /\ authTokenGetter' = Str("getAccessToken")
    /\ event' = Ev("setAuthTokenGetter", Null, Null, Null, Null)
    /\ UNCHANGED <<adapterKind, handles, state, mounted, authStateCallbacks, initOp,
                   ops, mockUser, mockTokens, shouldFailLogin,
                   shouldFailSignup, supaSession, requests, fetchesInFlight,
                   notifying, replaced>>

\* `if (token)`: null and the empty string are falsy
Truthy(token) == token # Null /\ token # Str("")

\* variant: the interceptor sends the bare token
AuthorizationHeader_BareToken(getter, token) ==
    IF getter # Null /\ Truthy(token) THEN token ELSE Undefined

\* config.headers.Authorization after the interceptor
AuthorizationHeader(getter, token) ==
    IF getter # Null /\ Truthy(token)
      THEN Str("Bearer " \o token.v)
      ELSE Undefined

\* the request interceptor up to `await authTokenGetter()`; the getter is
\* AuthProvider.getAccessToken, which calls adapter.getAccessToken()
RequestStart ==
    /\ BagCardinality(requests) < MaxRequests
    /\ IF authTokenGetter # Null
         THEN /\ requests' = requests (+) SetToBag({
                     [token |-> IF adapterKind = "mock"
                                  THEN MockGetAccessToken(mockTokens)
                                  ELSE Pending,
                      seen |-> supaSession]})
              /\ fetchesInFlight' = fetchesInFlight + 1
              /\ event' = Ev("requestStart", Null, Null, Null, Null)
         ELSE /\ UNCHANGED <<requests, fetchesInFlight>>
              /\ event' = Ev("requestSent", Null, Null, Null,
                             AuthorizationHeader(Null, Null))
    /\ UNCHANGED <<adapterKind, handles, state, mounted, authStateCallbacks, initOp,
                   ops, mockUser, mockTokens, shouldFailLogin,
                   shouldFailSignup, supaSession, authTokenGetter,
                   notifying, replaced>>

\* the Supabase client reads its session for the getSession() of a waiting
\* request's getAccessToken(): what it answers is the session it held at
\* some moment between the call and the answer
RequestRead ==
    /\ adapterKind = "supabase"
    /\ \E q \in BagToSet(requests) :
         /\ q.seen # supaSession
         /\ requests' = (requests (-) SetToBag({q}))
                           (+) SetToBag({[q EXCEPT !.seen = supaSession]})
    /\ event' = Ev("clientRead", Null, Null, Null, Null)
    /\ UNCHANGED <<adapterKind, handles, state, mounted, authStateCallbacks,
                   initOp, ops, mockUser, mockTokens, shouldFailLogin,
                   shouldFailSignup, supaSession, authTokenGetter,
                   fetchesInFlight,
                   notifying, replaced>>

\* the interceptor after the token arrived: getAccessToken after
\* `await this.client.auth.getSession()`, the getter and the interceptor
\* after their awaits; the answer is made from the session the client read
\* for the call
RequestSend ==
    \E q \in BagToSet(requests) :
      /\ \E resp \in (IF adapterKind = "mock" THEN {Null}
                        ELSE GetSessionResponses(q.seen)) :
           LET token == IF adapterKind = "mock" THEN q.token
                        ELSE SupabaseGetAccessToken(resp)
           IN event' = Ev("requestSent", Null, resp, token,
                          AuthorizationHeader(authTokenGetter, token))
      /\ requests' = requests (-) SetToBag({q})
      /\ fetchesInFlight' = fetchesInFlight - 1
      /\ UNCHANGED <<adapterKind, handles, state, mounted, authStateCallbacks, initOp,
                     ops, mockUser, mockTokens, shouldFailLogin,
                     shouldFailSignup, supaSession, authTokenGetter,
                   notifying, replaced>>

----------------------------------------------------------------------------

Next ==
    \/ InitializeRead
    \/ InitializeComplete
    \/ LoginStart
    \/ LoginComplete
    \/ SignupStart
    \/ SignupComplete
    \/ LogoutStart
    \/ LogoutComplete
    \/ RefreshAuthStart
    \/ RefreshAuthRead
    \/ RefreshAuthComplete
    \/ ProviderEvent

\* the session manager: a mounted AuthProvider over its adapter (unmounting
\* and mounting again are steps of MountSpec)
Spec == Init /\ [][Next]_vars

\* the API client and its token getter, over a session manager that logs
\* in and out
ApiNext ==
    \/ SetAuthTokenGetter
    \/ RequestStart
    \/ RequestRead
    \/ RequestSend
    \/ InitializeRead
    \/ InitializeComplete
    \/ LoginStart
    \/ LoginComplete
    \/ LogoutStart
    \/ LogoutComplete
    \/ ProviderEvent

ApiSpec == Init /\ [][ApiNext]_vars

\* the requests of the API client while the session the adapter holds
\* changes by login, logout and provider events (adapter.initialize() of
\* the mount changes no session and no getter: it stays pending here)
RequestNext ==
    \/ SetAuthTokenGetter
    \/ RequestStart
    \/ RequestRead
    \/ RequestSend
    \/ LoginStart
    \/ LoginComplete
    \/ LogoutStart
    \/ LogoutComplete
    \/ ProviderEvent

RequestSpec == Init /\ [][RequestNext]_vars

----------------------------------------------------------------------------
(* AuthProvider instances mounted one after the other on the same adapter *)

MountNext ==
    \/ InitializeRead
    \/ InitializeComplete
    \/ LoginStart
    \/ LoginComplete
    \/ SignupStart
    \/ SignupComplete
    \/ LogoutStart
    \/ LogoutComplete
    \/ RefreshAuthStart
    \/ RefreshAuthRead
    \/ RefreshAuthComplete
    \/ ProviderEvent
    \/ Unmount
    \/ Remount
    \/ StaleInitializeComplete

\* every operation of the session manager, called through the mounted
\* instance or a replaced one, over unmounts and mounts
MountSpec == Init /\ [][MountNext]_vars

\* the part of MountSpec whose calls are login and logout
RemountNext ==
    \/ InitializeRead
    \/ InitializeComplete
    \/ LoginStart
    \/ LoginComplete
    \/ LogoutStart
    \/ LogoutComplete
    \/ ProviderEvent
    \/ Unmount
    \/ Remount
    \/ StaleInitializeComplete

RemountSpec == Init /\ [][RemountNext]_vars

----------------------------------------------------------------------------
(* The session manager of a mounted AuthProvider under fair scheduling:    *)
(* a Supabase client call may never settle (no method of the adapter and   *)
(* no operation of AuthProvider sets a timer), every call that does settle *)
(* has its continuation run by the event loop.                             *)

\* the provider never answers a pending call
Hang ==
    /\ adapterKind = "supabase"
    /\ \/ /\ initOp # Idle
          /\ initOp.result = Pending
          /\ initOp' = [initOp EXCEPT !.result = Hung]
          /\ ops' = ops
       \/ /\ \E o \in BagToSet(ops) :
               /\ o.result = Pending
               /\ ops' = (ops (-) SetToBag({o}))
                            (+) SetToBag({[o EXCEPT !.result = Hung]})
          /\ initOp' = initOp
    /\ event' = Ev("hang", Null, Null, Null, Null)
    /\ UNCHANGED <<adapterKind, handles, state, mounted, authStateCallbacks,
                   mockUser, mockTokens, shouldFailLogin, shouldFailSignup,
                   supaSession, authTokenGetter, requests, fetchesInFlight,
                   notifying, replaced>>

LiveNext ==
    \/ InitializeRead
    \/ InitializeComplete
    \/ LoginStart
    \/ LoginComplete
    \/ SignupStart
    \/ SignupComplete
    \/ LogoutStart
    \/ LogoutComplete
    \/ ProviderEvent
    \/ Hang

LiveSpec ==
    /\ Init
    /\ [][LiveNext]_vars
    /\ WF_vars(InitializeComplete)
    /\ WF_vars(LoginComplete)
    /\ WF_vars(SignupComplete)
    /\ WF_vars(LogoutComplete)

----------------------------------------------------------------------------
(* The adapters on their own: every fallible method of the AuthAdapter     *)
(* interface called directly, on every response of the Supabase client     *)

AdapterMethods ==
    {"initialize", "login", "signup", "logout", "getCurrentUser",
     "refreshToken", "requestPasswordReset", "updatePassword"}

\* the methods whose client call reads the stored session
SessionReaders == {"initialize", "getCurrentUser", "getAccessToken"}

\* what the Supabase client call behind a method can answer when the client
\* holds the session sess
ProviderResponses(method, sess) ==
    (CASE method \in {"initialize", "getAccessToken"}
            -> GetSessionResponses(sess)
       [] method = "login" -> SignInResponses
       [] method = "signup" -> SignUpResponses
       [] method = "logout" -> SignOutResponses
       [] method = "getCurrentUser" -> GetUserResponses(sess)
       [] method = "refreshToken" -> RefreshSessionResponses
       [] method = "requestPasswordReset" -> ResetPasswordResponses
       [] OTHER -> UpdateUserResponses)
      \cup {Threw(e) : e \in OtherThrownValues}

SupabaseMethod(method, resp) ==
    CASE method = "initialize" -> SupabaseInitialize(resp)
      [] method = "login" -> SupabaseLogin(resp)
      [] method = "signup" -> SupabaseSignup(resp)
      [] method = "logout" -> SupabaseLogout(resp)
      [] method = "getCurrentUser" -> SupabaseGetCurrentUser(resp)
      [] method = "refreshToken" -> SupabaseRefreshToken(resp)
      [] method = "requestPasswordReset" -> SupabaseRequestPasswordReset(resp)
      [] OTHER -> SupabaseUpdatePassword(resp)

MockMethod(method, cred) ==
    CASE method = "initialize" ->
           MockCall(MockInitialize(mockUser, mockTokens),
                    mockUser, mockTokens, FALSE)
      [] method = "login" ->
           MockLogin(cred, shouldFailLogin, mockUser, mockTokens)
      [] method = "signup" ->
           MockSignup(cred, shouldFailSignup, shouldFailLogin,
                      mockUser, mockTokens)
      [] method = "logout" -> MockLogout
      [] method = "getCurrentUser" ->
           MockCall(MockGetCurrentUser(mockUser), mockUser, mockTokens, FALSE)
      [] method = "refreshToken" ->
           MockCall(MockRefreshToken(mockTokens), mockUser, mockTokens, FALSE)
      [] method = "requestPasswordReset" ->
           MockCall(MockRequestPasswordReset, mockUser, mockTokens, FALSE)
      [] OTHER ->
           MockCall(MockUpdatePassword, mockUser, mockTokens, FALSE)

\* the session the Supabase client stores after answering resp
ClientSessionAfter(method, resp) ==
    IF resp.threw \/ resp.error # Null THEN supaSession
    ELSE IF method \in {"login", "signup", "refreshToken"}
      THEN (IF resp.session # Null THEN resp.session ELSE supaSession)
    ELSE IF method = "logout" THEN Null
    ELSE supaSession

\* an adapter constructed and not yet handed to an AuthProvider
AdapterInit ==
    /\ adapterKind \in {"mock", "supabase"}
    /\ state = InitialState
    /\ mounted = FALSE
    /\ authStateCallbacks = << >>
    /\ mockUser = Null
    /\ mockTokens = Null
    /\ shouldFailLogin \in (IF adapterKind = "mock" THEN BOOLEAN ELSE {FALSE})
    /\ shouldFailSignup \in (IF adapterKind = "mock" THEN BOOLEAN ELSE {FALSE})
    /\ supaSession \in (IF adapterKind = "supabase"
                          THEN SupaSessions \cup {Null} ELSE {Null})
    /\ initOp = Idle
    /\ ops = EmptyBag
    /\ authTokenGetter = Null
    /\ requests = EmptyBag
    /\ fetchesInFlight = 0
    /\ handles = {}
    /\ notifying = << >>
    /\ replaced = FALSE
    /\ event = Ev("construct", Null, Null, Null, Null)

\* a call of a SupabaseAuthAdapter method whose client call is awaited;
\* `seen` is the session the client has read for a call that reports it
AdapterOp(method, arg) ==
    [kind |-> "adapter." \o method, cred |-> arg, result |-> Pending,
     seen |-> IF method \in SessionReaders THEN supaSession ELSE Null,
     pre |-> Null]

\* a SupabaseAuthAdapter method (getAccessToken included) is called: it runs
\* to its `await this.client.auth...` and the call to the client is pending
AdapterInvoke ==
    /\ adapterKind = "supabase"
    /\ InFlight < MaxInFlight
    /\ \E method \in AdapterMethods \cup {"getAccessToken"},
          cred \in Credentials :
         LET arg == IF method \in {"login", "signup"} THEN cred ELSE Null
         IN /\ ops' = ops (+) SetToBag({AdapterOp(method, arg)})
            /\ event' = Ev("adapterCall", arg, Null, Pending, Str(method))
    /\ UNCHANGED <<adapterKind, handles, state, mounted, authStateCallbacks,
                   initOp, mockUser, mockTokens, shouldFailLogin,
                   shouldFailSignup, supaSession, authTokenGetter, requests,
                   fetchesInFlight,
                   notifying, replaced>>

\* the Supabase client reads its session for a pending getSession() or
\* getUser(): what it answers is the session it held at some moment between
\* the call and the answer
AdapterRead ==
    /\ adapterKind = "supabase"
    /\ \E o \in BagToSet(ops) :
         /\ o.kind \in {"adapter." \o m : m \in SessionReaders}
         /\ o.seen # supaSession
         /\ ops' = (ops (-) SetToBag({o}))
                      (+) SetToBag({[o EXCEPT !.seen = supaSession]})
    /\ event' = Ev("clientRead", Null, Null, Null, Null)
    /\ UNCHANGED <<adapterKind, handles, state, mounted, authStateCallbacks,
                   initOp, mockUser, mockTokens, shouldFailLogin,
                   shouldFailSignup, supaSession, authTokenGetter, requests,
                   fetchesInFlight,
                   notifying, replaced>>

\* one method returns its result: a MockAuthAdapter method runs whole at its
\* call (it has no await); a SupabaseAuthAdapter method resumes after the
\* await when the client answers one of its pending calls
AdapterApply ==
    /\ IF adapterKind = "mock"
         THEN \E method \in AdapterMethods, cred \in Credentials :
                LET arg == IF method \in {"login", "signup"}
                             THEN cred ELSE Null
                    c == MockMethod(method, cred)
                IN /\ mockUser' = c.mockUser
                   /\ mockTokens' = c.mockTokens
                   /\ event' = Ev("adapter." \o method, arg, Null,
                                  c.result, Null)
                   /\ UNCHANGED <<supaSession, ops>>
         ELSE \E method \in AdapterMethods :
                \E o \in {p \in BagToSet(ops) :
                             p.kind = "adapter." \o method} :
                  \E resp \in ProviderResponses(method, o.seen) :
                    /\ supaSession' = ClientSessionAfter(method, resp)
                    /\ ops' = ops (-) SetToBag({o})
                    /\ event' = Ev("adapter." \o method, o.cred, resp,
                                   SupabaseMethod(method, resp), Null)
                    /\ UNCHANGED <<mockUser, mockTokens>>
    /\ UNCHANGED <<adapterKind, handles, state, mounted, authStateCallbacks, initOp,
                   shouldFailLogin, shouldFailSignup, authTokenGetter,
                   requests, fetchesInFlight,
                   notifying, replaced>>

\* adapter.getAccessToken() returns (AuthProvider's getAccessToken returns
\* this promise as it is): the mock answers at the call, the Supabase
\* adapter when the client answers the pending getSession()
GetAccessTokenCall ==
    /\ IF adapterKind = "mock"
         THEN /\ event' = Ev("adapter.getAccessToken", Null, Null,
                             MockGetAccessToken(mockTokens), Num(0))
              /\ ops' = ops
         ELSE \E o \in {p \in BagToSet(ops) :
                          p.kind = "adapter.getAccessToken"} :
                \E r1, r2 \in ProviderResponses("getAccessToken", o.seen) :
                  LET run == GetAccessTokenRun(<<r1, r2>>)
                  IN /\ ops' = ops (-) SetToBag({o})
                     /\ event' = Ev("adapter.getAccessToken", Null, r1,
                                    run.token, Num(run.queries))
    /\ UNCHANGED <<adapterKind, handles, state, mounted, authStateCallbacks,
                   initOp, mockUser, mockTokens, shouldFailLogin,
                   shouldFailSignup, supaSession, authTokenGetter, requests,
                   fetchesInFlight,
                   notifying, replaced>>

AdapterNext ==
    \/ AdapterInvoke
    \/ AdapterRead
    \/ AdapterApply
    \/ GetAccessTokenCall

AdapterSpec == AdapterInit /\ [][AdapterNext]_vars

----------------------------------------------------------------------------
(* The callback registry of MockAuthAdapter on its own: callbacks are      *)
(* registered and unsubscribed while login and logout notify               *)

ListenerIds == {"cb1", "cb2"}

ListenerEv(kind, cb, invoked, u, tk, result) ==
    [kind |-> kind, callback |-> cb, invoked |-> invoked,
     user |-> u, tokens |-> tk, result |-> result]

ListenerInit ==
    /\ adapterKind = "mock"
    /\ state = InitialState
    /\ mounted = FALSE
    /\ authStateCallbacks = << >>
    /\ mockUser = Null
    /\ mockTokens = Null
    /\ shouldFailLogin \in BOOLEAN
    /\ shouldFailSignup = FALSE
    /\ supaSession = Null
    /\ initOp = Idle
    /\ ops = EmptyBag
    /\ authTokenGetter = Null
    /\ requests = EmptyBag
    /\ fetchesInFlight = 0
    /\ handles = {}
    /\ notifying = << >>
    /\ replaced = FALSE
    /\ event = ListenerEv("construct", Null, << >>, Null, Null, Null)

\* a promise that was rejected
Rejected == [t |-> "rejected"]

\* one forEach of notifyAuthStateChange in progress: the callback that is
\* running (the head of todo) and those it has yet to invoke.  forEach walks
\* the array that was registered when it began: push only appends behind
\* its range, and the unsubscribe function installs a new array
Frame(kind, list) == [kind |-> kind, todo |-> list]

Top == notifying[Len(notifying)]

Popped == SubSeq(notifying, 1, Len(notifying) - 1)

\* what login() and logout() return after notifyAuthStateChange came back:
\* login reads the fields again
MockReturn(kind, u, tk) ==
    IF kind = "login" THEN Success([user |-> u, tokens |-> tk])
    ELSE Success(Undefined)

\* adapter.onAuthStateChange(cb), from outside or from the running callback
Subscribe ==
    /\ Len(authStateCallbacks) < MaxListeners
    /\ \E cb \in ListenerIds :
         /\ authStateCallbacks' = Append(authStateCallbacks, cb)
         /\ handles' = handles \cup {cb}
         /\ event' = ListenerEv("subscribe", cb, << >>, Null, Null, Null)
    /\ UNCHANGED <<adapterKind, state, mounted, initOp, ops, mockUser,
                   mockTokens, shouldFailLogin, shouldFailSignup,
                   supaSession, authTokenGetter, requests, fetchesInFlight,
                   notifying, replaced>>

\* a function returned by onAuthStateChange is called, for the first time
\* or again, from outside or from the running callback
Unsubscribe ==
    /\ \E cb \in handles :
         /\ authStateCallbacks' = Unsubscribed(authStateCallbacks, cb)
         /\ event' = ListenerEv("unsubscribe", cb, << >>, Null, Null, Null)
    /\ UNCHANGED <<adapterKind, handles, state, mounted, initOp, ops,
                   mockUser, mockTokens, shouldFailLogin, shouldFailSignup,
                   supaSession, authTokenGetter, requests, fetchesInFlight,
                   notifying, replaced>>

\* adapter.login(...) or adapter.logout() called, from outside or from the
\* running callback.  A failing login returns at once.  Otherwise the fields
\* are set and notifyAuthStateChange begins: forEach hands control to the
\* first registered callback, or, with none registered, the call returns
\* its result
NotifyingCall ==
    /\ Len(notifying) < MaxNesting
    /\ \E kind \in {"login", "logout"}, cred \in Credentials :
         LET c == AdapterCall(kind, cred)
         IN /\ mockUser' = c.mockUser
            /\ mockTokens' = c.mockTokens
            /\ IF c.notify /\ authStateCallbacks # << >>
                 THEN /\ notifying' = Append(notifying,
                                             Frame(kind, authStateCallbacks))
                      /\ event' = ListenerEv("invoke",
                                             Head(authStateCallbacks),
                                             authStateCallbacks,
                                             c.mockUser, c.mockTokens,
                                             Pending)
                 ELSE /\ notifying' = notifying
                      /\ event' = ListenerEv(kind, Null, << >>,
                                             c.mockUser, c.mockTokens,
                                             c.result)
    /\ UNCHANGED <<replaced, adapterKind, handles, state, mounted, authStateCallbacks,
                   initOp, ops, shouldFailLogin, shouldFailSignup,
                   supaSession, authTokenGetter, requests, fetchesInFlight>>

\* the running callback returns: forEach invokes the next callback of its
\* array with the fields as they are now, callback(this.mockUser,
\* this.mockTokens), or, at the end of the array, notifyAuthStateChange
\* returns and login()/logout() builds its result
CallbackReturn ==
    /\ notifying # << >>
    /\ IF Len(Top.todo) > 1
         THEN /\ notifying' = [notifying EXCEPT
                                 ![Len(notifying)].todo = Tail(@)]
              /\ event' = ListenerEv("invoke", Top.todo[2], Tail(Top.todo),
                                     mockUser, mockTokens, Pending)
         ELSE /\ notifying' = Popped
              /\ event' = ListenerEv(Top.kind, Null, << >>,
                                     mockUser, mockTokens,
                                     MockReturn(Top.kind, mockUser,
                                                mockTokens))
    /\ UNCHANGED <<replaced, adapterKind, handles, state, mounted, authStateCallbacks,
                   initOp, ops, mockUser, mockTokens, shouldFailLogin,
                   shouldFailSignup, supaSession, authTokenGetter, requests,
                   fetchesInFlight>>

\* the running callback throws: forEach and notifyAuthStateChange are
\* left, and the async login()/logout() that notified rejects (a call made
\* from inside a callback hands its caller a rejected promise, and that
\* callback runs on)
CallbackThrow ==
    /\ notifying # << >>
    /\ notifying' = Popped
    /\ event' = ListenerEv(Top.kind, Head(Top.todo), << >>,
                           mockUser, mockTokens, Rejected)
    /\ UNCHANGED <<replaced, adapterKind, handles, state, mounted, authStateCallbacks,
                   initOp, ops, mockUser, mockTokens, shouldFailLogin,
                   shouldFailSignup, supaSession, authTokenGetter, requests,
                   fetchesInFlight>>

ListenerNext ==
    \/ Subscribe
    \/ Unsubscribe
    \/ NotifyingCall
    \/ CallbackReturn
    \/ CallbackThrow

ListenerSpec == ListenerInit /\ [][ListenerNext]_vars

----------------------------------------------------------------------------
(* Construction: authConfig is read from the environment, AuthProvider     *)
(* renders, its useMemo creates the adapter (or takes the injected one),   *)
(* and only after a render that did not throw do the two effects run       *)

\* import.meta.env values; an unset variable is falsy like ''
EnvProviders == {"", "supabase", "auth0", "cognito", "firebase"}
EnvUrls == {"", "https://a.supabase.co", "https://b.supabase.co"}
EnvKeys == {"", "anon-key"}

\* config/auth.config.ts
authConfig(envProvider, envUrl, envKey) ==
    [provider |-> IF envProvider = "" THEN "supabase" ELSE envProvider,
     supabase |-> [url |-> envUrl, anonKey |-> envKey]]

\* the configurations createAuthAdapter is called with: the ones
\* auth.config.ts builds and ones without a supabase section
Configs ==
    {authConfig(p, u, k) : p \in EnvProviders, u \in EnvUrls, k \in EnvKeys}
      \cup {[provider |-> p, supabase |-> Undefined] :
               p \in EnvProviders \ {""}}

Thrown(m) == [threw |-> TRUE, message |-> m, adapter |-> "none"]
Created(a) == [threw |-> FALSE, message |-> "", adapter |-> a]

\* new SupabaseAuthAdapter(url, anonKey): the constructor only calls
\* createClient of supabase-js and checks nothing itself; whether
\* createClient accepts its arguments or throws is decided in the library,
\* so the outcome is an input
NewSupabaseAuthAdapter(url, anonKey, clientThrows) ==
    IF clientThrows THEN Thrown("createClient") ELSE Created("supabase")

\* adapters/index.ts
createAuthAdapter(config, clientThrows) ==
    CASE config.provider = "supabase" ->
           IF config.supabase = Undefined
             THEN Thrown("Supabase configuration is required")
             ELSE NewSupabaseAuthAdapter(config.supabase.url,
                                         config.supabase.anonKey,
                                         clientThrows)
      [] config.provider = "auth0" ->
           Thrown("Auth0 adapter not yet implemented")
      [] config.provider = "cognito" ->
           Thrown("Cognito adapter not yet implemented")
      [] OTHER ->
           Thrown("Unknown auth provider: " \o config.provider)

\* useMemo(() => injectedAdapter || createAuthAdapter(authConfig))
AdapterMemo(injected, config, clientThrows) ==
    IF injected THEN Created("mock")
    ELSE createAuthAdapter(config, clientThrows)

ConfigEv(kind, injected, config, outcome) ==
    [kind |-> kind, injected |-> injected, config |-> config,
     outcome |-> outcome]

\* before the first render of AuthProvider
ConfigInit ==
    /\ adapterKind = "none"
    /\ state = InitialState
    /\ mounted = FALSE
    /\ authStateCallbacks = << >>
    /\ mockUser = Null
    /\ mockTokens = Null
    /\ shouldFailLogin = FALSE
    /\ shouldFailSignup = FALSE
    /\ supaSession \in SupaSessions \cup {Null}
    /\ initOp = Idle
    /\ ops = EmptyBag
    /\ authTokenGetter = Null
    /\ requests = EmptyBag
    /\ fetchesInFlight = 0
    /\ handles = {}
    /\ notifying = << >>
    /\ replaced = FALSE
    /\ \E injected \in BOOLEAN, config \in Configs :
         event = ConfigEv("config", injected, config, Null)

\* the render of AuthProvider: useState and the adapter memo
Render ==
    /\ event.kind = "config"
    /\ \E clientThrows \in BOOLEAN :
         LET made == AdapterMemo(event.injected, event.config, clientThrows)
         IN /\ adapterKind' = made.adapter
            /\ event' = ConfigEv("render", event.injected, event.config,
                                 made)
    /\ UNCHANGED <<handles, state, mounted, authStateCallbacks, initOp, ops,
                   mockUser, mockTokens, shouldFailLogin, shouldFailSignup,
                   supaSession, authTokenGetter, requests, fetchesInFlight,
                   notifying, replaced>>

\* the effects after a render that returned: initializeAuth is called and
\* the listener is registered
MountEffects ==
    /\ event.kind = "render"
    /\ ~event.outcome.threw
    /\ mounted' = TRUE
    /\ authStateCallbacks' = Append(authStateCallbacks, "AuthProvider")
    /\ handles' = handles \cup {"AuthProvider"}
    /\ initOp' = InitializeCall
    /\ event' = ConfigEv("mount", event.injected, event.config,
                         event.outcome)
    /\ UNCHANGED <<adapterKind, state, ops, mockUser, mockTokens,
                   shouldFailLogin, shouldFailSignup, supaSession,
                   authTokenGetter, requests, fetchesInFlight,
                   notifying, replaced>>

ConfigNext ==
    \/ Render
    \/ MountEffects
    \/ InitializeComplete

ConfigSpec == ConfigInit /\ [][ConfigNext]_vars

----------------------------------------------------------------------------
(* ProtectedRoute rendered from the session state of an AuthProvider that  *)
(* logs in and out                                                         *)

Locations == {"/dashboard", "/settings"}

View(render, to, from) == [render |-> render, to |-> to, from |-> from]

\* variant: the guard looks at isAuthenticated before isLoading
ProtectedRoute_AuthenticatedFirst(st, location, redirectTo) ==
    IF st.isAuthenticated THEN View("children", Null, Null)
    ELSE IF st.isLoading THEN View("loading", Null, Null)
    ELSE View("navigate", Str(redirectTo), Str(location))

\* components/ProtectedRoute.tsx: what the component returns
ProtectedRoute(st, location, redirectTo) ==
    IF st.isLoading THEN View("loading", Null, Null)
    ELSE IF ~st.isAuthenticated
      THEN View("navigate", Str(redirectTo), Str(location))
    ELSE View("children", Null, Null)

\* a render of <ProtectedRoute> (redirectTo left at its default) at some
\* location with the current context value
RouteRender ==
    /\ mounted
    /\ \E location \in Locations :
         event' = [kind |-> "routeRender", location |-> location,
                   view |-> ProtectedRoute(state, location, "/login")]
    /\ UNCHANGED <<adapterKind, handles, state, mounted, authStateCallbacks,
                   initOp, ops, mockUser, mockTokens, shouldFailLogin,
                   shouldFailSignup, supaSession, authTokenGetter, requests,
                   fetchesInFlight,
                   notifying, replaced>>

RouteNext ==
    \/ InitializeRead
    \/ InitializeComplete
    \/ LoginStart
    \/ LoginComplete
    \/ LogoutStart
    \/ LogoutComplete
    \/ ProviderEvent
    \/ RouteRender

RouteSpec == Init /\ [][RouteNext]_vars

----------------------------------------------------------------------------
(* Properties *)

Anonymous(st) == ~st.isAuthenticated /\ st.user = Null /\ st.tokens = Null

Failed(e) == e.result # Pending /\ e.result # Null /\ ~e.result.success

Succeeded(e) == e.result # Pending /\ e.result # Null /\ e.result.success

\* C1: in every reachable session state isAuthenticated is true exactly
\* when user is non-null.
C1_AuthenticatedIffUser ==
    state.isAuthenticated <=> (state.user # Null)

\* a provider callback has just reported a session while two operations
\* are in flight, and the state is authenticated with that user
C1_Witness ==
    /\ event.kind = "callback"
    /\ event.resp # Null
    /\ InFlight = 2
    /\ state.isAuthenticated
    /\ state.user = mapUser(event.resp.user)

\* C2: a login or signup whose port call fails writes only the loading
\* flag: across the step that starts the call and across the step that
\* applies the failure, user, tokens and isAuthenticated keep their values.
C2_FailedCallKeepsIdentity ==
    [][ ( \/ /\ event'.kind \in {"loginStart", "signupStart"}
             /\ (event'.result = Pending \/ Failed(event'))
          \/ /\ event'.kind \in {"loginDone", "signupDone"}
             /\ Failed(event') )
        => /\ state'.user = state.user
           /\ state'.tokens = state.tokens
           /\ state'.isAuthenticated = state.isAuthenticated ]_vars

\* a login failed while a session was held, and the session is still there
C2_Witness ==
    /\ event.kind \in {"loginDone", "signupDone"}
    /\ Failed(event)
    /\ state.user # Null
    /\ state.tokens # Null

\* C3: when logout completes the session state is user=null, tokens=null,
\* isAuthenticated=false, isLoading=false, whether the port's logout
\* succeeded or failed (for a provider that is still mounted: React drops
\* the update of an unmounted one).
C3_LogoutAlwaysClears ==
    (event.kind = "logoutDone" /\ mounted) =>
      /\ state.user = Null
      /\ state.tokens = Null
      /\ ~state.isAuthenticated
      /\ ~state.isLoading

\* a logout whose port call failed has completed
C3_Witness ==
    /\ event.kind = "logoutDone"
    /\ mounted
    /\ Failed(event)
    /\ state = ClearedState

PendingSignupDone(e) ==
    /\ adapterKind = "supabase"
    /\ e.kind = "signupDone"
    /\ VerificationPending(e.resp)

\* C4: a signup for which the provider created the user but issued no
\* session never authenticates: its completion does not turn
\* isAuthenticated on, and from Anonymous the state after it is Anonymous
\* with user=null and tokens=null.
C4_PendingSignupStaysAnonymous ==
    [][ PendingSignupDone(event')
        => /\ state'.isAuthenticated => state.isAuthenticated
           /\ Anonymous(state) => Anonymous(state') ]_vars

\* a verification-pending signup completed and the state is Anonymous
C4_Witness ==
    /\ PendingSignupDone(event)
    /\ Anonymous(state)
    /\ ~state.isLoading

\* C5: at most one login/signup/logout/refresh operation is in flight
\* against the session manager at any time (a second call is rejected or
\* waits for the first).
C5_SingleInFlight ==
    InFlight <= 1

\* C6: getToken() calls made while a token fetch is pending share that
\* fetch: at most one adapter.getAccessToken() call is unresolved at any
\* time, however many requests wait for a token.
C6_TokenCoalescing ==
    fetchesInFlight <= 1

\* C7: when login is called and the port's login succeeds, then after the
\* call completes the state is authenticated, not loading, with exactly the
\* user and tokens the port returned (for the mock port user.email is the
\* submitted email), and the call returns success=true.  The state is that
\* of a provider still mounted when the call completes.
C7_LoginSuccess ==
    (event.kind = "loginDone" /\ Succeeded(event)) =>
      /\ event.ret = [success |-> TRUE]
      /\ mounted =>
            /\ state = AuthState(event.result.data.user,
                                 event.result.data.tokens, FALSE, TRUE)
            /\ adapterKind = "mock" => state.user.email = event.cred.email

\* a login with a@b.com succeeded against the mock port
C7_Witness ==
    /\ adapterKind = "mock"
    /\ mounted
    /\ event.kind = "loginDone"
    /\ Succeeded(event)
    /\ event.cred.email = "a@b.com"
    /\ state.isAuthenticated

\* C8 as stated: after a login whose port call fails the state is Anonymous
\* with isLoading=false, whatever the state was when login was called.
C8_FailedLoginIsAnonymous ==
    (event.kind = "loginDone" /\ Failed(event) /\ mounted) =>
      /\ ~state.isAuthenticated
      /\ ~state.isLoading

\* C8 amended: after a login whose port call fails isLoading is false and
\* isAuthenticated is what it was when the failure was applied, so the
\* state is Anonymous whenever it was Anonymous then (for a provider still
\* mounted when the failure arrives; React drops the update otherwise).
C8_FailedLoginKeepsAuthentication ==
    [][ (event'.kind = "loginDone" /\ Failed(event') /\ mounted)
        => /\ ~state'.isLoading
           /\ state'.isAuthenticated = state.isAuthenticated ]_vars

\* a login failed from Anonymous and the state is Anonymous, not loading
C8_Witness ==
    /\ event.kind = "loginDone"
    /\ mounted
    /\ Failed(event)
    /\ Anonymous(state)
    /\ ~state.isLoading

\* C9: the mount starts in loading=true, anonymous; when initialize()
\* returns success with session data the state becomes Authenticated with
\* exactly the restored user and tokens and isLoading=false; when it returns
\* success with null data or a failure the state becomes Anonymous with
\* user=null, tokens=null and isLoading=false (for a provider that is
\* still mounted when the result arrives).
C9_Start ==
    /\ event.kind = "mount" => state = AuthState(Null, Null, TRUE, FALSE)
    /\ (event.kind = "initializeDone" /\ mounted) =>
         IF event.result.success /\ event.result.data # Null
           THEN state = AuthState(event.result.data.user,
                                  event.result.data.tokens, FALSE, TRUE)
           ELSE state = AuthState(Null, Null, FALSE, FALSE)

\* initialize() restored a session
C9_Witness ==
    /\ event.kind = "initializeDone"
    /\ mounted
    /\ event.result.success
    /\ event.result.data # Null
    /\ state.isAuthenticated
    /\ state.tokens = event.result.data.tokens

RefreshedWithUser(e) ==
    e.kind = "refreshAuthDone" /\ Succeeded(e) /\ e.result.data # Null

\* C10 as stated: a successful refresh replaces only the token pair: user
\* and isAuthenticated are the same before and after, and tokens are the
\* pair Port.refreshToken returns (refreshAuth is the only refresh
\* operation of the session manager).
C10_RefreshReplacesOnlyTokens ==
    [][ (RefreshedWithUser(event') /\ mounted)
        => /\ state'.user = state.user
           /\ state'.isAuthenticated = state.isAuthenticated
           /\ (adapterKind = "mock" /\ MockRefreshToken(mockTokens).success)
                => state'.tokens = MockRefreshToken(mockTokens).data ]_vars

\* C11 as stated: a refreshAuth whose port call failed leaves the whole
\* session state unchanged and returns the failure to its caller.
C11_FailedRefreshReported ==
    [][ (event'.kind = "refreshAuthDone" /\ Failed(event') /\ mounted)
        => /\ state' = state
           /\ event'.ret # Undefined
           /\ ~event'.ret.success ]_vars

\* C12: logout is idempotent: a logout called in the settled anonymous
\* state resolves normally (on the mock adapter with a successful port
\* result) and the session state after it completes equals the state before
\* the call, so a second logout in a row ends in the state the first one
\* left (the state of an unmounted provider is not written at all).
C12_LogoutIdempotent ==
    (event.kind = "logoutDone" /\ event.pre = ClearedState)
        => /\ mounted => state = event.pre
           /\ event.ret = Undefined
           /\ (adapterKind = "mock" => event.result.success)

\* a logout called on the anonymous state has completed
C12_Witness ==
    /\ event.kind = "logoutDone"
    /\ mounted
    /\ event.pre = ClearedState
    /\ state = ClearedState

\* the initialize() call in flight was made on an adapter holding the
\* session of an earlier login and nothing has changed that session since:
\* the adapter still holds that user and, on the Supabase adapter, the
\* session the client read for the answer is that user's
SessionKeptSinceStart ==
    /\ initOp # Idle
    /\ initOp.pre # Null
    /\ PersistedUser = initOp.pre
    /\ adapterKind = "supabase"
         => (initOp.seen # Null /\ initOp.seen.user = initOp.pre)

\* C13 as stated: round trip.  When an AuthProvider is mounted on an
\* adapter that holds the session of an earlier successful login, and no
\* logout (or provider-side session change) happened since, its
\* initializeAuth ends authenticated with a user whose id is the id of that
\* login's user.
C13_RoundTrip ==
    [][ (event'.kind = "initializeDone" /\ mounted /\ SessionKeptSinceStart)
        => /\ state'.isAuthenticated
           /\ state'.user # Null
           /\ state'.user.id = initOp.pre.id ]_vars

\* C13 amended: under the same conditions initializeAuth ends authenticated
\* with that user's id provided the port's initialize() succeeds; when
\* initialize() fails (getSession() of the provider returns an error or
\* throws) it ends anonymous although the session is still persisted.
C13_RoundTripUnlessInitializeFails ==
    [][ (event'.kind = "initializeDone" /\ mounted /\ SessionKeptSinceStart)
        => IF event'.result.success
             THEN /\ state'.isAuthenticated
                  /\ state'.user # Null
                  /\ state'.user.id = initOp.pre.id
                  /\ state'.tokens # Null
             ELSE state' = ClearedState ]_vars

\* a remounted AuthProvider restored the user of an earlier mock login
C13_Witness ==
    /\ adapterKind = "mock"
    /\ event.kind = "initializeDone"
    /\ mounted
    /\ event.pre # Null
    /\ mockUser = event.pre
    /\ state.isAuthenticated
    /\ state.user.id = "mock-user-id"

\* the two shapes of AuthResult<T>
IsAuthResult(r) ==
    \/ DOMAIN r = {"success", "data"} /\ r.success
    \/ /\ DOMAIN r = {"success", "error"}
       /\ ~r.success
       /\ {"code", "message"} \subseteq DOMAIN r.error

AdapterEvent(e) == e.kind \in {"adapter." \o m : m \in AdapterMethods}

\* C14: every fallible adapter method, on every answer of the provider (a
\* value, an error value, a thrown exception), returns exactly one of
\* {success:true, data} and {success:false, error:{code, message}}; no
\* exception leaves the adapter.
C14_AdapterNeverThrows ==
    AdapterEvent(event) => IsAuthResult(event.result)

\* a thrown exception came back from updatePassword as a failure result
C14_Witness ==
    /\ event.kind = "adapter.updatePassword"
    /\ event.resp # Null
    /\ event.resp.threw
    /\ event.result = handleError(event.resp.thrown)
    /\ ~event.result.success

OperationDone(e) ==
    e.kind \in {"loginDone", "signupDone", "logoutDone", "refreshAuthDone"}

\* C15 as stated: every public operation of the session manager (login,
\* signup, logout, refreshAuth) resolves to a success/failure result that
\* agrees with the result of its adapter call; in particular a failed
\* adapter logout or getCurrentUser is reported to the caller as a failure.
C15_OperationsReportOutcome ==
    OperationDone(event)
        => /\ event.ret # Undefined
           /\ event.ret.success = event.result.success

\* C16: when the adapter's login (or signup) fails with message m, the
\* session manager's login (or signup) resolves to {success:false, error:m}:
\* the message the adapter reported, which for the Supabase adapter is the
\* message of the provider's error value and for a failing mock login is
\* 'Mock login failed'.
C16_FailureMessageSurfaced ==
    (event.kind \in {"loginDone", "signupDone"} /\ Failed(event))
        => /\ event.ret =
                [success |-> FALSE, error |-> event.result.error.message]
           /\ (adapterKind = "supabase" /\ ~event.resp.threw
                 /\ event.resp.error # Null)
                => event.ret.error = event.resp.error.message
           /\ (adapterKind = "mock" /\ event.kind = "loginDone")
                => event.ret.error = "Mock login failed"

\* a failing mock login surfaced its message
C16_Witness ==
    /\ adapterKind = "mock"
    /\ event.kind = "loginDone"
    /\ Failed(event)
    /\ event.ret = [success |-> FALSE, error |-> "Mock login failed"]

\* C17 as stated: the session manager never stays in isLoading = true
\* forever: every state with isLoading = true is followed by a state with
\* isLoading = false, also when a port call hangs.
C17_LoadingEventuallyEnds ==
    state.isLoading ~> ~state.isLoading

\* a login, signup or logout whose adapter call has not settled yet
TransitionInFlight ==
    \E o \in BagToSet(ops) : o.kind \in {"login", "signup", "logout"}

\* C18 as stated: whenever a login, signup or logout is in flight the
\* session state has isLoading = true, under every interleaving with other
\* operations and with provider state-change callbacks.
C18_LoadingWhileInFlight ==
    (mounted /\ TransitionInFlight) => state.isLoading

\* C19: isLoading is true only while a transition is in flight: in every
\* state of a mounted AuthProvider with isLoading = true, the initialize()
\* call of the mount or at least one login, signup or logout call has
\* started and not yet settled.
C19_LoadingOnlyWhileInFlight ==
    (mounted /\ state.isLoading) => (initOp # Idle \/ TransitionInFlight)

\* isLoading is true because of a login that started after initialize settled
C19_Witness ==
    /\ mounted
    /\ state.isLoading
    /\ initOp = Idle
    /\ event.kind = "loginStart"
    /\ TransitionInFlight

\* the listeners AuthProvider has registered with the adapter
Registered ==
    {k \in 1..Len(authStateCallbacks) : authStateCallbacks[k] = "AuthProvider"}

C21_NoStaleStateDelivery ==
    (mounted /\ adapterKind = "supabase"
       /\ event.kind \in {"initializeDone", "refreshAuthDone"}
       /\ ~event.resp.threw /\ event.resp.error = Null)
        => event.resp.user = PersistedUser

\* C22 as stated: when the provider accepts a signup but issues no session
\* (email verification pending), the adapter's signup returns a success
\* result with no tokens, not a failure.
C22_PendingSignupIsSuccess ==
    (adapterKind = "supabase" /\ event.kind = "adapter.signup"
       /\ VerificationPending(event.resp))
        => /\ event.result.success
           /\ event.result.data.tokens = Null

\* C23 as stated: every failure result leaving an adapter carries a kind of
\* the fixed taxonomy (InvalidCredentials, EmailUnverified, NoSession,
\* OperationInProgress, ProviderUnavailable, Unknown, written as the code
\* writes its codes) and no raw provider error value; refreshToken with
\* nothing to refresh fails with NoSession.
C23_FailureKindsFromTaxonomy ==
    (AdapterEvent(event) /\ ~event.result.success)
        => /\ event.result.error.code \in
                {"INVALID_CREDENTIALS", "EMAIL_UNVERIFIED", "NO_SESSION",
                 "OPERATION_IN_PROGRESS", "PROVIDER_UNAVAILABLE", "UNKNOWN"}
           /\ event.result.error.details = Undefined
           /\ event.kind = "adapter.refreshToken"
                => event.result.error.code = "NO_SESSION"

RegisteredCallbacks ==
    {authStateCallbacks[k] : k \in 1..Len(authStateCallbacks)}

\* the registrations of callbacks other than cb, in order
Others(cbs, cb) == SelectSeq(cbs, LAMBDA c : c # cb)

\* C24: the function onAuthStateChange returns deregisters its callback:
\* calling it removes the callback and leaves the registrations of every
\* other callback as they were, calling it when the callback is no longer
\* registered changes nothing, a callback becomes registered only through
\* onAuthStateChange, and a login or logout notification invokes exactly
\* the callbacks registered at the moment it begins, in order, so a
\* notification that begins after a callback was unsubscribed never
\* invokes it.  (`invoked` of an invoke step is the callback invoked and
\* those the same notification has yet to invoke.)
C24_UnsubscribeHandle ==
    [][ /\ event'.kind = "unsubscribe"
          => /\ event'.callback \notin RegisteredCallbacks'
             /\ Others(authStateCallbacks', event'.callback)
                  = Others(authStateCallbacks, event'.callback)
             /\ event'.callback \notin RegisteredCallbacks
                  => authStateCallbacks' = authStateCallbacks
        /\ (event'.kind = "invoke" /\ Len(notifying') > Len(notifying))
          => /\ event'.invoked = authStateCallbacks
             /\ event'.callback = authStateCallbacks[1]
             /\ authStateCallbacks' = authStateCallbacks
        /\ (event'.kind = "invoke" /\ Len(notifying') = Len(notifying))
          => /\ event'.invoked = Tail(Top.todo)
             /\ event'.callback = Top.todo[2]
             /\ authStateCallbacks' = authStateCallbacks
        /\ event'.kind \in {"login", "logout"}
          => /\ authStateCallbacks' = authStateCallbacks
             /\ (Len(notifying') < Len(notifying)
                   /\ event'.result # Rejected)
                  => Len(Top.todo) = 1
             /\ (Len(notifying') = Len(notifying)
                   /\ event'.result.success)
                  => authStateCallbacks = << >>
        /\ \A cb \in RegisteredCallbacks' \ RegisteredCallbacks :
             event'.kind = "subscribe" /\ event'.callback = cb ]_vars

\* a logout that began after cb1 was unsubscribed invoked the one callback
\* still registered
C24_Witness ==
    /\ event.kind = "invoke"
    /\ mockUser = Null
    /\ handles = {"cb1", "cb2"}
    /\ authStateCallbacks = <<"cb2">>
    /\ event.invoked = <<"cb2">>
    /\ event.callback = "cb2"
    /\ Len(notifying) = 1

\* the provider answered without an error value and without throwing
Answered(resp) == ~resp.threw /\ resp.error = Null

\* C25: initialize() returns {success: true, data: null}, not a failure,
\* whenever the provider holds no session (the mock has no user or no
\* tokens, the Supabase client answers getSession() with no session), and
\* a success with non-null data carries both a user and tokens.
C25_InitializeWithoutSession ==
    event.kind = "adapter.initialize"
        => /\ (adapterKind = "mock" /\ (mockUser = Null \/ mockTokens = Null))
                => event.result = Success(Null)
           /\ (adapterKind = "supabase" /\ Answered(event.resp)
                 /\ event.resp.session = Null)
                => event.result = Success(Null)
           /\ (event.result.success /\ event.result.data # Null)
                => /\ event.result.data.user # Null
                   /\ event.result.data.tokens # Null
                   /\ adapterKind = "mock"
                        => /\ event.result.data.user = mockUser
                           /\ event.result.data.tokens = mockTokens
                   /\ adapterKind = "supabase"
                        => /\ event.resp.session # Null
                           /\ event.result.data.user.id
                                = event.resp.session.user.id
                           /\ event.result.data.tokens.accessToken
                                = event.resp.session.access_token

\* initialize on a Supabase client without a session returned null data
C25_Witness ==
    /\ adapterKind = "supabase"
    /\ event.kind = "adapter.initialize"
    /\ supaSession = Null
    /\ Answered(event.resp)
    /\ event.result = Success(Null)

\* C26: getAccessToken never fails and never retries: on every answer of
\* the provider (session, no session, error value, thrown exception) it
\* makes one getSession() query and resolves to the access token of the
\* session that query reported (one the client held between being asked
\* and answering), or to null; it never rejects.
C26_GetAccessTokenBestEffort ==
    event.kind = "adapter.getAccessToken"
        => IF adapterKind = "mock"
             THEN event.result = (IF mockTokens = Null THEN Null
                                  ELSE Str(mockTokens.accessToken))
             ELSE /\ event.ret = Num(1)
                  /\ event.result =
                       (IF event.resp.threw \/ event.resp.session = Null
                          THEN Null
                          ELSE Str(event.resp.session.access_token))
                  /\ event.result # Null
                       => \E s \in SupaSessions :
                            event.result = Str(s.access_token)

\* a getSession() that threw was turned into a null token
C26_Witness ==
    /\ adapterKind = "supabase"
    /\ event.kind = "adapter.getAccessToken"
    /\ event.resp.threw
    /\ supaSession # Null
    /\ event.result = Null

\* C28: every outbound request of the API client carries Authorization =
\* 'Bearer <t>' exactly when a token getter is registered and resolved to a
\* non-null token t for that request; with no getter, or a getter that
\* resolved to null, the request is sent without the header.  The getter is
\* the one App.tsx registers, getAccessToken over the adapter.
C28_BearerIffToken ==
    event.kind = "requestSent"
        => IF authTokenGetter # Null /\ event.result # Null
             THEN event.ret = Str("Bearer " \o event.result.v)
             ELSE event.ret = Undefined

\* a request went out with the access token of the session of a Supabase
\* client, read while the request waited for its token
C28_Witness ==
    /\ event.kind = "requestSent"
    /\ adapterKind = "supabase"
    /\ authTokenGetter # Null
    /\ event.result = Str("jwt-2")
    /\ event.ret = Str("Bearer jwt-2")

\* C29: ProtectedRoute renders its children only when isLoading is false
\* and isAuthenticated is true; with isLoading true it renders the loading
\* placeholder, also for an authenticated state; with isLoading false and
\* isAuthenticated false it navigates to the login route and passes the
\* attempted location.
C29_ProtectedRouteGuards ==
    event.kind = "routeRender"
        => /\ event.view.render = "children"
                <=> (~state.isLoading /\ state.isAuthenticated)
           /\ state.isLoading
                => event.view = [render |-> "loading", to |-> Null,
                                 from |-> Null]
           /\ (~state.isLoading /\ ~state.isAuthenticated)
                => event.view = [render |-> "navigate", to |-> Str("/login"),
                                 from |-> Str(event.location)]

\* an authenticated user started another login and the route shows the
\* loading placeholder
C29_Witness ==
    /\ event.kind = "routeRender"
    /\ state.isLoading
    /\ state.isAuthenticated
    /\ event.view.render = "loading"

\* what getAccessToken() can resolve to when called now: the mock hands
\* out its field; the Supabase adapter asks the client, whose getSession()
\* answers with the session it holds, with an error, or throws
CurrentTokens ==
    IF adapterKind = "mock" THEN {MockGetAccessToken(mockTokens)}
    ELSE {SupabaseGetAccessToken(resp) :
             resp \in GetSessionResponses(supaSession)}

\* the step completes a login successfully (on the mock with no logout
\* called while it was in flight, so the adapter still holds its tokens)
LoginSucceeds ==
    /\ event'.kind = "loginDone"
    /\ Succeeded(event')
    /\ adapterKind = "mock" => mockTokens' # Null

\* the steps that change what getAccessToken() can resolve to: a logout,
\* another login or signup, a provider-side session change
TokenChangesOnlyBySessionChange ==
    CurrentTokens' # CurrentTokens
        => event'.kind \in
             (IF adapterKind = "mock"
                THEN {"loginStart", "signupStart", "logoutStart"}
                ELSE {"loginDone", "signupDone", "logoutDone", "callback"})

\* C30 as stated: when a login through the session manager completes
\* successfully, getAccessToken() resolves to a non-null token equal to the
\* accessToken of the pair that login returned and stored in the session
\* state; afterwards that changes only when a logout, another login or
\* signup, or a provider-side session change (token refresh) happens.
C30_TokenAfterLogin ==
    [][ /\ LoginSucceeds
          => /\ \A t \in CurrentTokens' :
                  /\ t # Null
                  /\ t = Str(event'.result.data.tokens.accessToken)
             /\ mounted => state'.tokens = event'.result.data.tokens
        /\ TokenChangesOnlyBySessionChange ]_vars

\* C30 amended: after a successful login getAccessToken() resolves to the
\* accessToken of the pair that login returned and stored whenever the
\* provider answers (always on the mock adapter) and to null when
\* getSession() of the Supabase client returns an error or throws; it
\* resolves to no other token until a logout, another login or signup, or
\* a provider-side session change happens.
C30_TokenAfterLoginOrNull ==
    [][ /\ LoginSucceeds
          => LET t == Str(event'.result.data.tokens.accessToken)
             IN /\ t \in CurrentTokens'
                /\ CurrentTokens' \subseteq {t, Null}
                /\ adapterKind = "mock" => CurrentTokens' = {t}
                /\ adapterKind = "supabase"
                     => \A resp \in GetSessionResponses(supaSession') :
                          SupabaseGetAccessToken(resp) = Null
                            <=> (resp.threw \/ resp.error # Null)
                /\ mounted => state'.tokens = event'.result.data.tokens
        /\ TokenChangesOnlyBySessionChange ]_vars

\* after a completed mock login the adapter hands out the access token the
\* session state holds
C30_Witness ==
    /\ adapterKind = "mock"
    /\ mounted
    /\ event.kind = "loginDone"
    /\ Succeeded(event)
    /\ state.isAuthenticated
    /\ CurrentTokens = {Str(state.tokens.accessToken)}
    /\ state.tokens.accessToken = "mock-access-token"

----------------------------------------------------------------------------
\* C31: start() runs exactly once per process lifetime (the application
\* renders one AuthProvider, at its root): adapter.initialize() is called
\* exactly once, by the mount, and the Initializing state (initializeAuth
\* pending) is entered exactly once; the pending call is only ever
\* settled, and once it has settled no step calls initialize again or puts
\* the session back into Initializing.
C31_StartRunsOnce ==
    [][ /\ initOp = Idle => (initOp' = Idle /\ event'.kind # "mount")
        /\ event'.kind = "initializeDone" => (initOp # Idle /\ initOp' = Idle)
        /\ (initOp # Idle /\ initOp' # Idle) => initOp'.pre = initOp.pre ]_vars

\* the session manager went on to a login after its start had settled
C31_Witness ==
    /\ mounted
    /\ initOp = Idle
    /\ event.kind = "loginDone"
    /\ Succeeded(event)
    /\ state.isAuthenticated

----------------------------------------------------------------------------
(* The pure rules at the boundaries on their own: the private mapping       *)
(* methods of SupabaseAuthAdapter (mapUser applied to the user of the       *)
(* session the client holds, handleError applied to whatever a method found *)
(* in `error` or caught) and the header rule of the request interceptor     *)
(* applied to whatever a token getter can resolve to.                       *)

\* what a registered getter (`() => Promise<string | null>`) resolves to:
\* null, an access token, or the empty string, the one string that is
\* falsy (getAccessToken of an adapter passes on whatever access_token the
\* session holds, `data.session?.access_token ?? null`)
TokenValues ==
    {Null, Str(""), Str("jwt-1"), Str("jwt-2"), Str("mock-access-token")}

\* user objects of the Supabase client: email_confirmed_at is an optional
\* field (a timestamp, null, or absent), so is user_metadata
ProviderUsers ==
    [id : {"uuid-1", "uuid-2"},
     email : Emails,
     email_confirmed_at : {Str("2024-01-01T00:00:00Z"), Null, Undefined},
     user_metadata : {[role |-> "admin"], Undefined}]

\* values handleError can be given: the `error` of a client response or
\* the value caught by a try block (an AuthError, an Error with an empty
\* message, an object without a message, a string, null, undefined)
CaughtValues ==
    ErrorValues \cup ThrownValues \cup OtherThrownValues
      \cup { [t |-> "object", hasMessage |-> TRUE, isError |-> TRUE,
              message |-> "", status |-> Undefined],
             [t |-> "object", hasMessage |-> TRUE, isError |-> FALSE,
              message |-> "", status |-> Num(500)],
             [t |-> "object", hasMessage |-> TRUE, isError |-> FALSE,
              message |-> "Network request failed", status |-> Num(0)],
             [t |-> "object", hasMessage |-> FALSE, isError |-> FALSE,
              message |-> "", status |-> Num(500)],
             [t |-> "null", hasMessage |-> FALSE, isError |-> FALSE,
              message |-> "", status |-> Undefined],
             [t |-> "undefined", hasMessage |-> FALSE, isError |-> FALSE,
              message |-> "", status |-> Undefined] }

MappingEv(kind, input, output) ==
    [kind |-> kind, input |-> input, output |-> output]

\* a constructed adapter whose client holds a session
MappingInit ==
    /\ adapterKind = "supabase"
    /\ state = InitialState
    /\ mounted = FALSE
    /\ authStateCallbacks = << >>
    /\ mockUser = Null
    /\ mockTokens = Null
    /\ shouldFailLogin = FALSE
    /\ shouldFailSignup = FALSE
    /\ supaSession \in {SupaSession(a, u) : a \in AccessTokens,
                                            u \in ProviderUsers}
    /\ initOp = Idle
    /\ ops = EmptyBag
    /\ authTokenGetter = Null
    /\ requests = EmptyBag
    /\ fetchesInFlight = 0
    /\ handles = {}
    /\ notifying = << >>
    /\ replaced = FALSE
    /\ event = MappingEv("construct", Null, Null)

\* this.mapUser(data.session.user)
MapUserCall ==
    /\ event' = MappingEv("mapUser", supaSession.user,
                          mapUser(supaSession.user))
    /\ UNCHANGED <<adapterKind, handles, state, mounted, authStateCallbacks,
                   initOp, ops, mockUser, mockTokens, shouldFailLogin,
                   shouldFailSignup, supaSession, authTokenGetter, requests,
                   fetchesInFlight,
                   notifying, replaced>>

\* this.mapTokens(data.session)
MapTokensCall ==
    /\ event' = MappingEv("mapTokens", supaSession, mapTokens(supaSession))
    /\ UNCHANGED <<adapterKind, handles, state, mounted, authStateCallbacks,
                   initOp, ops, mockUser, mockTokens, shouldFailLogin,
                   shouldFailSignup, supaSession, authTokenGetter, requests,
                   fetchesInFlight,
                   notifying, replaced>>

\* return this.handleError(error)
HandleErrorCall ==
    /\ \E error \in CaughtValues :
         event' = MappingEv("handleError", error, handleError(error))
    /\ UNCHANGED <<adapterKind, handles, state, mounted, authStateCallbacks,
                   initOp, ops, mockUser, mockTokens, shouldFailLogin,
                   shouldFailSignup, supaSession, authTokenGetter, requests,
                   fetchesInFlight,
                   notifying, replaced>>

\* the request interceptor with or without a registered getter, after the
\* getter resolved
InterceptorCall ==
    /\ \E getter \in {Null, Str("getAccessToken")}, token \in TokenValues :
         event' = MappingEv("interceptor",
                            [getter |-> getter, token |-> token],
                            AuthorizationHeader(getter, token))
    /\ UNCHANGED <<adapterKind, handles, state, mounted, authStateCallbacks,
                   initOp, ops, mockUser, mockTokens, shouldFailLogin,
                   shouldFailSignup, supaSession, authTokenGetter, requests,
                   fetchesInFlight,
                   notifying, replaced>>

MappingNext ==
    \/ MapUserCall
    \/ MapTokensCall
    \/ HandleErrorCall
    \/ InterceptorCall

MappingSpec == MappingInit /\ [][MappingNext]_vars

----------------------------------------------------------------------------
\* C32: mapUser gives emailVerified = true exactly when the provider user
\* has an email confirmation timestamp (false when email_confirmed_at is
\* null or absent), and copies id, email and metadata unchanged.
C32_MapUser ==
    event.kind = "mapUser" =>
      /\ event.output.emailVerified
           = (event.input.email_confirmed_at \notin {Null, Undefined})
      /\ event.output.id = event.input.id
      /\ event.output.email = event.input.email
      /\ event.output.metadata = event.input.user_metadata

----------------------------------------------------------------------------
\* C33: handleError turns every error value into a failure whose message is
\* a non-empty text and whose details is the value itself: an object with a
\* message and a status gives code = the status as a string, an object with
\* a message and no status gives code 'UNKNOWN', any other value gives code
\* 'UNKNOWN' and the message 'An unknown error occurred'.
C33_HandleError ==
    event.kind = "handleError" =>
      LET error == event.input
          r == event.output
          withMessage == error.t = "object" /\ error.hasMessage
      IN /\ ~r.success
         /\ r.error.message # ""
         /\ r.error.details = error
         /\ (withMessage /\ error.status \notin {Undefined, Null})
              => r.error.code = ToString(error.status.v)
         /\ (withMessage /\ error.status \in {Undefined, Null})
              => r.error.code = "UNKNOWN"
         /\ ~withMessage
              => /\ r.error.code = "UNKNOWN"
                 /\ r.error.message = "An unknown error occurred"

----------------------------------------------------------------------------
\* C34: in every reachable session state isAuthenticated = true implies
\* that tokens is not null, also after refreshAuth() was called while
\* anonymous and the provider reported a current user.
C34_AuthenticatedHasTokens ==
    state.isAuthenticated => state.tokens # Null

----------------------------------------------------------------------------
\* C35: once logout() has completed the session stays Anonymous until an
\* operation started after that logout or a later provider notification
\* reports a session: the result of a login, signup or refreshAuth that
\* was already in flight when logout was called never re-authenticates.
\* Checked at the step right after the logout completed: the call that
\* settles there was in flight when that logout was called.
C35_LogoutNotOvertaken ==
    [][ ( /\ mounted
          /\ event.kind = "logoutDone"
          /\ event'.kind \in {"loginDone", "signupDone", "refreshAuthDone"}
          /\ \A o \in BagToSet(ops) : o.kind # "logout"
          /\ \E o \in BagToSet(event.overtaken) :
                ops = ops' (+) SetToBag({o}) )
        => ~state'.isAuthenticated ]_vars

----------------------------------------------------------------------------
\* C36: a late result of the mount-time initialize() never overwrites newer
\* state: when a provider state-change callback or a login/signup completed
\* while initialize() was still pending, the session state after
\* initialize() settles is still the one that callback or operation wrote.
\* Checked at the step right after the callback or completion.
C36_LateInitializeKeepsNewerState ==
    [][ ( /\ event.kind \in {"callback", "loginDone", "signupDone"}
          /\ event'.kind = "initializeDone"
          /\ mounted )
        => state' = state ]_vars

----------------------------------------------------------------------------
\* C37: after logout() has completed, and before any new login or signup,
\* getAccessToken() resolves to null, so a request sent then carries no
\* bearer token, also when the port's logout call failed.  Checked for a
\* logout that was called and completed with no other call in flight.
C37_NoTokenAfterLogout ==
    [][ ( /\ mounted
          /\ event.kind = "logoutStart"
          /\ event'.kind = "logoutDone"
          /\ ops' = EmptyBag
          /\ authTokenGetter # Null )
        => /\ ~state'.isAuthenticated
           /\ \A t \in CurrentTokens' :
                /\ t = Null
                /\ AuthorizationHeader(authTokenGetter, t) = Undefined ]_vars

----------------------------------------------------------------------------
\* C38: after the AuthProvider is unmounted an initialize() result that
\* arrives later does not change the session state, and the provider's
\* listener is deregistered, so no later provider callback changes the
\* session state either; when another AuthProvider has been mounted since,
\* the late initialize() result of the unmounted one does not change the
\* new one's state.
C38_UnmountedProviderIsInert ==
    [][ /\ ~mounted =>
             /\ \A k \in 1..Len(authStateCallbacks) :
                   authStateCallbacks[k] # "AuthProvider"
             /\ event'.kind \in {"initializeDone", "callback"}
                   => state' = state
        /\ event'.kind = "staleInitializeDone" => state' = state ]_vars

\* a restorable session arrived after the unmount and was not written
C38_Witness ==
    /\ ~mounted
    /\ event.kind = "initializeDone"
    /\ event.result.success
    /\ event.result.data # Null
    /\ state = InitialState
    /\ initOp = Idle

----------------------------------------------------------------------------
\* C39: refreshAuth() never moves the state from Authenticated to Anonymous
\* and never touches tokens or isLoading: when getCurrentUser returns a
\* failure or success with a null user the session state is left entirely
\* unchanged (still authenticated if it was), and when it returns a user
\* only user and isAuthenticated are written (nothing is written once the
\* provider is unmounted).
C39_RefreshAuthFrame ==
    [][ (event'.kind = "refreshAuthDone" /\ mounted) =>
          /\ state'.tokens = state.tokens
          /\ state'.isLoading = state.isLoading
          /\ state.isAuthenticated => state'.isAuthenticated
          /\ IF event'.result.success /\ event'.result.data # Null
               THEN /\ state'.user = event'.result.data
                    /\ state'.isAuthenticated
               ELSE state' = state ]_vars

\* the provider reported no user (or failed) and the session is still
\* authenticated with its tokens
C39_Witness ==
    /\ event.kind = "refreshAuthDone"
    /\ mounted
    /\ ~(event.result.success /\ event.result.data # Null)
    /\ state.isAuthenticated
    /\ state.user # Null
    /\ state.tokens # Null

====
